---------------------------- MODULE Spec2Model ----------------------------
(***************************************************************************)
(* A model of the aprstx packet plane: the TNC2 text parser, the packet    *)
(* model, the router, the digipeater and the queues that connect them.     *)
(*                                                                         *)
(* Text is modelled as a sequence of one-character strings, so that the    *)
(* string operations of the source (find, split, contains, strip_suffix,   *)
(* to_uppercase, parse::<u8>) are computed character by character.         *)
(***************************************************************************)
EXTENDS Integers, Sequences, FiniteSets, TLC

(***************************************************************************)
(* Strings                                                                 *)
(***************************************************************************)

\* a string literal as the sequence of its characters
Str(s) == [i \in 1..Len(s) |-> SubSeq(s, i, i)]

\* str[a..b] of the source, 1-based and inclusive; empty when a > b
Slice(s, a, b) == IF a > b THEN <<>> ELSE SubSeq(s, a, b)

\* str::find(char): the 1-based index of the first c in s, 0 when absent
Find(s, c) ==
    IF \E i \in 1..Len(s) : s[i] = c
    THEN CHOOSE i \in 1..Len(s) : s[i] = c /\ \A j \in 1..(i - 1) : s[j] # c
    ELSE 0

\* str::starts_with
StartsWith(s, p) == Len(p) <= Len(s) /\ SubSeq(s, 1, Len(p)) = p

\* str::contains(&str)
Contains(s, sub) ==
    \E i \in 1..(Len(s) - Len(sub) + 1) : SubSeq(s, i, i + Len(sub) - 1) = sub

\* str::contains(char)
ContainsChar(s, c) == \E i \in 1..Len(s) : s[i] = c

\* str::split(char): the pieces between the separators, never empty as a list
RECURSIVE Split(_, _)
Split(s, c) ==
    LET i == Find(s, c)
    IN  IF i = 0 THEN <<s>>
        ELSE <<Slice(s, 1, i - 1)>> \o Split(Slice(s, i + 1, Len(s)), c)

\* str::trim_start, for the blank
RECURSIVE TrimStart(_)
TrimStart(s) ==
    IF Len(s) > 0 /\ s[1] = " " THEN TrimStart(Tail(s)) ELSE s

\* str::trim, for the blank
RECURSIVE TrimEnd(_)
TrimEnd(s) ==
    IF Len(s) > 0 /\ s[Len(s)] = " " THEN TrimEnd(Slice(s, 1, Len(s) - 1)) ELSE s

Trim(s) == TrimEnd(TrimStart(s))

LowerCase == <<"a", "b", "c", "d", "e", "f", "g", "h", "i", "j", "k", "l", "m",
               "n", "o", "p", "q", "r", "s", "t", "u", "v", "w", "x", "y", "z">>
UpperCase == <<"A", "B", "C", "D", "E", "F", "G", "H", "I", "J", "K", "L", "M",
               "N", "O", "P", "Q", "R", "S", "T", "U", "V", "W", "X", "Y", "Z">>

\* str::to_uppercase
ToUpper(s) ==
    [i \in 1..Len(s) |->
        IF \E k \in 1..26 : LowerCase[k] = s[i]
        THEN UpperCase[CHOOSE k \in 1..26 : LowerCase[k] = s[i]]
        ELSE s[i]]

DigitChars == <<"0", "1", "2", "3", "4", "5", "6", "7", "8", "9">>

\* char::is_numeric, for ASCII
IsDigit(c) == \E k \in 1..10 : DigitChars[k] = c

DigitVal(c) == (CHOOSE k \in 1..10 : DigitChars[k] = c) - 1

RECURSIVE DecVal(_)
DecVal(s) == IF Len(s) = 0 THEN 0
             ELSE DecVal(Slice(s, 1, Len(s) - 1)) * 10 + DigitVal(s[Len(s)])

\* str::parse::<u8>(): decimal digits after an optional '+', at most 255;
\* -1 stands for Err
ParseU8(s) ==
    LET d == IF Len(s) > 0 /\ s[1] = "+" THEN Tail(s) ELSE s
    IN  IF Len(d) = 0 \/ \E i \in 1..Len(d) : ~IsDigit(d[i]) THEN -1
        ELSE IF DecVal(d) > 255 THEN -1
        ELSE DecVal(d)

\* the decimal rendering of a natural number ({} of an integer)
RECURSIVE FmtNat(_)
FmtNat(n) == IF n < 10 THEN <<DigitChars[n + 1]>>
             ELSE FmtNat(n \div 10) \o <<DigitChars[(n % 10) + 1]>>

(***************************************************************************)
(* Callsigns and packets (aprs/packet.rs)                                  *)
(***************************************************************************)

NoCall == [ok |-> FALSE]

\* CallSign::new
CallSignNew(call, ssid) ==
    [ok |-> TRUE, call |-> ToUpper(call), ssid |-> ssid, digipeated |-> FALSE]

\* CallSign::parse
CallSignParse(input) ==
    LET digipeated == Len(input) > 0 /\ input[Len(input)] = "*"
        body  == IF digipeated THEN Slice(input, 1, Len(input) - 1) ELSE input
        parts == Split(body, "-")
        ssid  == IF Len(parts) > 1
                 THEN (IF ParseU8(parts[2]) = -1 THEN 0 ELSE ParseU8(parts[2]))
                 ELSE 0
    IN  IF Len(parts[1]) = 0 THEN NoCall
        ELSE IF ssid > 15 THEN NoCall
        ELSE [ok |-> TRUE, call |-> ToUpper(parts[1]), ssid |-> ssid,
              digipeated |-> digipeated]

\* a Display for CallSign that leaves the used marker out
CallSignToStringUnmarked(c) ==
    c.call \o (IF c.ssid = 0 THEN <<>> ELSE <<"-">> \o FmtNat(c.ssid))

\* impl Display for CallSign
CallSignToString(c) ==
    (IF c.ssid = 0 THEN c.call ELSE c.call \o <<"-">> \o FmtNat(c.ssid))
        \o (IF c.digipeated THEN <<"*">> ELSE <<>>)

\* AprsPacket::detect_data_type
DetectDataType(info) ==
    IF Len(info) = 0 THEN "Invalid"
    ELSE CASE info[1] \in {"!", "=", "/", "@"} -> "Position"
           [] info[1] = ">" -> "Status"
           [] info[1] = ":" -> "Message"
           [] info[1] = ";" -> "Object"
           [] info[1] = ")" -> "Item"
           [] info[1] \in {"`", "'"} -> "MicE"
           [] info[1] = "T" -> "Telemetry"
           [] info[1] = "_" -> "Weather"
           [] info[1] = "{" -> "UserDefined"
           [] info[1] = "}" -> "ThirdParty"
           [] OTHER -> "Invalid"

\* AprsPacket::new; the timestamp and the raw bytes, which no decision of
\* the packet plane reads, are left out of the record
AprsPacketNew(source, destination, information) ==
    [source |-> source, destination |-> destination, path |-> <<>>,
     data_type |-> DetectDataType(information), information |-> information]

\* a has_rfonly that never finds the marker
HasRfonlyNever(p) == FALSE

\* AprsPacket::has_rfonly
HasRfonly(p) == Contains(p.information, Str("RFONLY"))

\* AprsPacket::has_nogate
HasNogate(p) == Contains(p.information, Str("NOGATE"))

RECURSIVE PathToString(_)
PathToString(path) ==
    IF Len(path) = 0 THEN <<>>
    ELSE <<",">> \o CallSignToString(Head(path)) \o PathToString(Tail(path))

\* impl Display for AprsPacket
PacketToString(p) ==
    CallSignToString(p.source) \o <<">">> \o CallSignToString(p.destination)
        \o PathToString(p.path) \o <<":">> \o p.information

(***************************************************************************)
(* The TNC2 text parser (aprs/parser.rs)                                   *)
(***************************************************************************)

ParseErr == [ok |-> FALSE]

RECURSIVE ParsePath(_)
ParsePath(parts) ==
    IF Len(parts) = 0 THEN <<>>
    ELSE LET c == CallSignParse(Head(parts))
         IN  (IF c.ok THEN <<c>> ELSE <<>>) \o ParsePath(Tail(parts))

\* parse_packet
ParsePacket(line) ==
    LET input == TrimStart(line)
        header_end == Find(input, ":")
        header == Trim(Slice(input, 1, header_end - 1))
        information == Slice(input, header_end + 1, Len(input))
        header_parts == Split(header, ">")
        source == CallSignParse(header_parts[1])
        path_parts == Split(header_parts[2], ",")
        destination == CallSignParse(path_parts[1])
    IN  IF Len(input) = 0 THEN ParseErr
        ELSE IF header_end = 0 THEN ParseErr
        ELSE IF Len(header_parts) # 2 THEN ParseErr
        ELSE IF ~source.ok THEN ParseErr
        ELSE IF ~destination.ok THEN ParseErr
        ELSE [ok |-> TRUE,
              pkt |-> [AprsPacketNew(source, destination, information)
                          EXCEPT !.path = ParsePath(Tail(path_parts))]]


(***************************************************************************)
(* The filter (filter.rs).  A rule's pattern is a literal, and the regex   *)
(* engine's unanchored is_match on a literal is a substring search.        *)
(***************************************************************************)

\* Regex::is_match for the patterns used here: a literal, found anywhere in
\* the text, and .* which matches every text
RegexIsMatch(pattern, text) ==
    IF pattern = Str(".*") THEN TRUE ELSE Contains(text, pattern)

\* a walk in which the last matching rule decides
RECURSIVE WalkFiltersLast(_, _)
WalkFiltersLast(filters, text) ==
    IF Len(filters) = 0 THEN TRUE
    ELSE IF RegexIsMatch(filters[Len(filters)].pattern, text)
         THEN filters[Len(filters)].action = "pass"
         ELSE WalkFiltersLast(SubSeq(filters, 1, Len(filters) - 1), text)

\* should_pass, the loop over self.filters
RECURSIVE WalkFilters(_, _)
WalkFilters(filters, text) ==
    IF Len(filters) = 0 THEN TRUE
    ELSE IF RegexIsMatch(Head(filters).pattern, text)
         THEN Head(filters).action = "pass"
         ELSE WalkFilters(Tail(filters), text)

\* PacketFilter::should_pass
ShouldPass(filters, p) == WalkFilters(filters, PacketToString(p))

(***************************************************************************)
(* The router's pure parts (router.rs)                                     *)
(***************************************************************************)

\* cleanup_recent_packets: max_age, in seconds
RouterMaxAge == 300
\* store_packet_hash: the length above which the list is cut
RecentLimit == 1000
\* store_packet_hash: how many of the oldest entries a cut removes
RecentDrain == 100
\* PacketRouter::run: the period of the housekeeping tick, in seconds
RouterTickPeriod == 60

\* calculate_packet_hash: the hash is a function of the text alone (the
\* hasher is created with fixed keys); it is modelled as collision-free
CalculatePacketHash(text) == <<"hash", text>>

\* PacketRouter::is_duplicate
IsDuplicate(recent_packets, packet_str, t, viscous_delay) ==
    \E i \in 1..Len(recent_packets) :
        /\ recent_packets[i].hash = CalculatePacketHash(packet_str)
        /\ t - recent_packets[i].t < viscous_delay

\* a store that enters the packet twice
StorePacketHashTwice(recent_packets, packet_str, t) ==
    recent_packets \o <<[hash |-> CalculatePacketHash(packet_str), t |-> t],
                        [hash |-> CalculatePacketHash(packet_str), t |-> t]>>

\* a dedup list that is never cut
StorePacketHashUncut(recent_packets, packet_str, t) ==
    Append(recent_packets, [hash |-> CalculatePacketHash(packet_str), t |-> t])

\* PacketRouter::store_packet_hash
StorePacketHash(recent_packets, packet_str, t) ==
    LET pushed == Append(recent_packets,
                         [hash |-> CalculatePacketHash(packet_str), t |-> t])
    IN  IF Len(pushed) > RecentLimit
        THEN SubSeq(pushed, RecentDrain + 1, Len(pushed))
        ELSE pushed

\* PacketRouter::cleanup_recent_packets
CleanupRecentPackets(recent_packets, t) ==
    LET Young(e) == t - e.t < RouterMaxAge
    IN  SelectSeq(recent_packets, Young)

\* PacketRouter::should_gate_to_rf
ShouldGateToRf(mycall, p) ==
    IF \E i \in 1..Len(p.path) : Contains(p.path[i].call, Str("TCPIP"))
    THEN FALSE
    ELSE IF p.source.call = mycall THEN FALSE
    ELSE TRUE

(***************************************************************************)
(* The digipeater's pure parts (digipeater.rs)                             *)
(***************************************************************************)

\* cleanup_old_packets: max_age, in seconds
DigiMaxAge == 300
\* run_digipeater: the period of the cleanup task, in seconds
DigiTickPeriod == 60

InSeq(seq, e) == \E i \in 1..Len(seq) : seq[i] = e

\* is_wide_pattern
IsWidePattern(call) ==
    LET dash_pos == Find(call, "-")
        prefix == Slice(call, 1, dash_pos - 1)
        suffix == Slice(call, dash_pos + 1, Len(call))
    IN  /\ dash_pos # 0
        /\ Len(prefix) = 5
        /\ StartsWith(prefix, Str("WIDE"))
        /\ IsDigit(prefix[5])
        /\ ParseU8(suffix) # -1
        /\ ParseU8(suffix) > 0
        /\ ParseU8(suffix) <= 7

\* should_digipeat
ShouldDigipeat(config, p) ==
    LET digi_count ==
            Cardinality({i \in 1..Len(p.path) : ContainsChar(p.path[i].call, "*")})
        unused == {i \in 1..Len(p.path) : ~ContainsChar(p.path[i].call, "*")}
        hop == p.path[CHOOSE i \in unused : \A j \in unused : i <= j]
    IN  IF ~config.enabled THEN FALSE
        ELSE IF digi_count >= config.max_hops THEN FALSE
        ELSE IF unused = {} THEN FALSE
        ELSE IF hop.call = config.mycall \/ InSeq(config.aliases, hop.call) THEN TRUE
        ELSE IF IsWidePattern(hop.call) THEN TRUE
        ELSE FALSE

\* parse_wide_pattern
ParseWidePattern(call) ==
    LET dash_pos == Find(call, "-")
        prefix == Slice(call, 1, dash_pos - 1)
        n == ParseU8(Slice(call, dash_pos + 1, Len(call)))
    IN  IF dash_pos # 0 /\ n # -1 THEN [wide_type |-> prefix, n |-> n]
        ELSE [wide_type |-> call, n |-> 0]

\* process_packet, the loop over the path: the new path and found_us
RECURSIVE RewritePath(_, _, _)
RewritePath(config, path, found_us) ==
    IF Len(path) = 0 THEN [path |-> <<>>, found_us |-> found_us]
    ELSE
      LET hop == Head(path)
          mine == CallSignNew(config.mycall \o <<"*">>, 0)
          wide == ParseWidePattern(hop.call)
          here ==
            IF ~found_us /\ ~ContainsChar(hop.call, "*")
            THEN IF hop.call = config.mycall \/ InSeq(config.aliases, hop.call)
                 THEN [hops |-> <<mine>>, found_us |-> TRUE]
                 ELSE IF IsWidePattern(hop.call)
                 THEN IF wide.n > 1
                      THEN [hops |-> <<mine,
                                       CallSignNew(wide.wide_type \o <<"-">>
                                                   \o FmtNat(wide.n - 1), 0)>>,
                            found_us |-> TRUE]
                      ELSE [hops |-> <<mine>>, found_us |-> TRUE]
                 ELSE [hops |-> <<hop>>, found_us |-> FALSE]
            ELSE [hops |-> <<hop>>, found_us |-> found_us]
          rest == RewritePath(config, Tail(path), here.found_us)
      IN  [path |-> here.hops \o rest.path, found_us |-> rest.found_us]

\* process_packet: the key of the digipeater's dedup table
DigiKey(p) == CallSignToString(p.source) \o <<">">> \o p.information

\* process_packet: the viscous-delay check against the table
DigiSeenRecently(config, p, recent_packets, t) ==
    /\ DigiKey(p) \in DOMAIN recent_packets
    /\ t - recent_packets[DigiKey(p)] < config.viscous_delay

\* a viscous-delay check that stamps the key again when it drops a packet
ProcessPacketRefreshing(config, p, recent_packets, t) ==
    LET stored == [k \in DOMAIN recent_packets \cup {DigiKey(p)} |->
                      IF k = DigiKey(p) THEN t ELSE recent_packets[k]]
        new == RewritePath(config, p.path, FALSE)
    IN  IF new.found_us /\ ~DigiSeenRecently(config, p, recent_packets, t)
        THEN [out |-> [ok |-> TRUE, pkt |-> [p EXCEPT !.path = new.path]],
              recent_packets |-> stored]
        ELSE [out |-> [ok |-> FALSE], recent_packets |-> stored]

\* process_packet: [out, recent_packets]; out.ok is FALSE for None
ProcessPacket(config, p, recent_packets, t) ==
    LET stored == [k \in DOMAIN recent_packets \cup {DigiKey(p)} |->
                      IF k = DigiKey(p) THEN t ELSE recent_packets[k]]
        new == RewritePath(config, p.path, FALSE)
    IN  IF DigiSeenRecently(config, p, recent_packets, t)
        THEN [out |-> [ok |-> FALSE], recent_packets |-> recent_packets]
        ELSE IF new.found_us
        THEN [out |-> [ok |-> TRUE, pkt |-> [p EXCEPT !.path = new.path]],
              recent_packets |-> stored]
        ELSE [out |-> [ok |-> FALSE], recent_packets |-> stored]

\* cleanup_old_packets
CleanupOldPackets(recent_packets, t) ==
    [k \in {j \in DOMAIN recent_packets : t - recent_packets[j] < DigiMaxAge}
        |-> recent_packets[k]]

(***************************************************************************)
(* The message handler's pure parts (message.rs)                           *)
(***************************************************************************)

\* str::rfind(char): the 1-based index of the last c in s, 0 when absent
RFind(s, c) ==
    IF \E i \in 1..Len(s) : s[i] = c
    THEN CHOOSE i \in 1..Len(s) : s[i] = c /\ \A j \in (i + 1)..Len(s) : s[j] # c
    ELSE 0

\* a format that pads nothing
Pad9Unpadded(s) == s

\* format!("{:<9}", s): s padded with blanks on the right to 9 characters
RECURSIVE Pad9(_)
Pad9(s) == IF Len(s) >= 9 THEN s ELSE Pad9(s \o <<" ">>)

\* the source of every packet the handler builds
HandlerSource(mycall) ==
    IF CallSignParse(mycall).ok THEN CallSignParse(mycall)
    ELSE CallSignNew(Str("N0CALL"), 0)

\* an id taken from the whole text, ack or rej included
AckedIdWhole(ack_text) == ack_text

\* handle_ack_rej: msg_id = &ack_text[3..]
AckedId(ack_text) == Slice(ack_text, 4, Len(ack_text))

\* handle_message, handle_incoming_message, handle_ack_rej and
\* send_status_reply, as what they decide for one packet:
\*   kind   "ignore", "ackrej" or "incoming"
\*   msg_id the id of an ack or rej, or of an incoming message ("" = none)
\*   key    the key of received_messages
\*   ack    the ack packet to send, status the status reply to send
HandleMessage(mycall, p) ==
    LET info == p.information
        addressee == Trim(Slice(info, 2, 10))
        remaining == Slice(info, 12, Len(info))
        id_pos == RFind(remaining, "{")
        text == IF id_pos # 0 THEN Slice(remaining, 1, id_pos - 1) ELSE remaining
        msg_id == Slice(remaining, id_pos + 1, Len(remaining))
        src == CallSignToString(p.source)
        none == [ok |-> FALSE]
        ignore == [kind |-> "ignore", msg_id |-> <<>>, key |-> <<>>,
                   ack |-> none, status |-> none]
    IN  IF ~StartsWith(info, <<":">>) \/ Len(info) < 11 THEN ignore
        ELSE IF addressee # mycall /\ ~StartsWith(addressee, mycall) THEN ignore
        ELSE IF StartsWith(remaining, Str("ack")) \/ StartsWith(remaining, Str("rej"))
        THEN [ignore EXCEPT !.kind = "ackrej", !.msg_id = AckedId(remaining)]
        ELSE [kind |-> "incoming",
              msg_id |-> IF id_pos # 0 THEN msg_id ELSE <<>>,
              key |-> IF id_pos # 0 THEN src \o <<":">> \o msg_id ELSE <<>>,
              ack |-> IF id_pos # 0
                      THEN [ok |-> TRUE,
                            pkt |-> AprsPacketNew(HandlerSource(mycall),
                                       CallSignNew(Str("APRS"), 0),
                                       <<":">> \o Pad9(src) \o Str(":ack") \o msg_id)]
                      ELSE none,
              status |-> IF ToUpper(Trim(text)) = Str("?APRST")
                         THEN [ok |-> TRUE,
                               pkt |-> AprsPacketNew(HandlerSource(mycall),
                                          CallSignNew(Str("APRS"), 0),
                                          <<":">> \o Pad9(src)
                                              \o Str(":aprstx daemon running"))]
                         ELSE none]

(***************************************************************************)
(* Bytes                                                                   *)
(***************************************************************************)

\* u8 & u8 and u8 | u8
RECURSIVE BitAnd(_, _)
BitAnd(a, b) ==
    IF a = 0 \/ b = 0 THEN 0
    ELSE (IF a % 2 = 1 /\ b % 2 = 1 THEN 1 ELSE 0) + 2 * BitAnd(a \div 2, b \div 2)

RECURSIVE BitOr(_, _)
BitOr(a, b) ==
    IF a = 0 THEN b
    ELSE IF b = 0 THEN a
    ELSE (IF a % 2 = 1 \/ b % 2 = 1 THEN 1 ELSE 0) + 2 * BitOr(a \div 2, b \div 2)

\* u8 << n, the bits that leave the byte being lost, and u8 >> n
Shl(a, n) == (a * (2 ^ n)) % 256
Shr(a, n) == a \div (2 ^ n)

\* the printable ASCII characters, from 0x20 to 0x7E (the grave accent,
\* 0x60, written #96)
AsciiChars ==
    Str(" !") \o <<"\"">> \o Str("#$%&'()*+,-./0123456789:;<=>?@")
        \o Str("ABCDEFGHIJKLMNOPQRSTUVWXYZ[") \o <<"\\">> \o Str("]^_") \o <<"#96">>
        \o Str("abcdefghijklmnopqrstuvwxyz{|}~")

\* str::as_bytes, for text of printable ASCII
ByteOf(c) == (CHOOSE k \in 1..Len(AsciiChars) : AsciiChars[k] = c) + 31
AsBytes(text) == [i \in 1..Len(text) |-> ByteOf(text[i])]

\* u8 as char and String::from_utf8_lossy: a byte outside printable ASCII
\* gives a character that is none of AsciiChars
CharOf(b) == IF b >= 32 /\ b <= 126 THEN AsciiChars[b - 31] ELSE "#" \o ToString(b)
FromBytes(bytes) == [i \in 1..Len(bytes) |-> CharOf(bytes[i])]

(***************************************************************************)
(* The KISS codec (serial/kiss.rs)                                         *)
(***************************************************************************)

KISS_FEND == 192
KISS_FESC == 219
KISS_TFEND == 220
KISS_TFESC == 221
KISS_CMD_DATA == 0

\* KissCodec::decode: one call, which reads src until it can return a
\* frame or src is empty: [codec, src, frame], frame.ok FALSE for None
RECURSIVE KissDecode(_, _)
KissDecode(c, src) ==
    IF Len(src) = 0
    THEN [codec |-> c, src |-> src, frame |-> [ok |-> FALSE]]
    ELSE LET byte == Head(src)
             rest == Tail(src)
             taken == [c EXCEPT !.decode_buf = <<>>, !.in_frame = FALSE]
         IN  IF c.escaped
             THEN IF byte = KISS_TFEND
                  THEN KissDecode([c EXCEPT !.escaped = FALSE,
                                            !.decode_buf = Append(@, KISS_FEND)], rest)
                  ELSE IF byte = KISS_TFESC
                  THEN KissDecode([c EXCEPT !.escaped = FALSE,
                                            !.decode_buf = Append(@, KISS_FESC)], rest)
                  ELSE KissDecode([decode_buf |-> <<>>, in_frame |-> FALSE,
                                   escaped |-> FALSE], rest)
             ELSE IF byte = KISS_FEND
             THEN IF c.in_frame /\ Len(c.decode_buf) > 0
                  THEN IF /\ BitAnd(c.decode_buf[1], 15) = KISS_CMD_DATA
                          /\ BitAnd(Shr(c.decode_buf[1], 4), 15) = 0
                          /\ Len(c.decode_buf) > 1
                       THEN [codec |-> taken, src |-> rest,
                             frame |-> [ok |-> TRUE, data |-> Tail(c.decode_buf)]]
                       ELSE KissDecode(taken, rest)
                  ELSE KissDecode([c EXCEPT !.in_frame = TRUE, !.decode_buf = <<>>], rest)
             ELSE IF byte = KISS_FESC
             THEN KissDecode(IF c.in_frame THEN [c EXCEPT !.escaped = TRUE] ELSE c, rest)
             ELSE KissDecode(IF c.in_frame
                             THEN [c EXCEPT !.decode_buf = Append(@, byte)] ELSE c, rest)

\* an encoder that escapes nothing
KissEscapeNothing(data) == data

\* KissCodec::encode: the bytes of data with FEND and FESC escaped
RECURSIVE KissEscape(_)
KissEscape(data) ==
    IF Len(data) = 0 THEN <<>>
    ELSE (IF Head(data) = KISS_FEND THEN <<KISS_FESC, KISS_TFEND>>
          ELSE IF Head(data) = KISS_FESC THEN <<KISS_FESC, KISS_TFESC>>
          ELSE <<Head(data)>>) \o KissEscape(Tail(data))

\* KissCodec::encode
KissEncode(data, port) ==
    <<KISS_FEND, BitOr(Shl(port, 4), KISS_CMD_DATA)>> \o KissEscape(data) \o <<KISS_FEND>>

\* a read loop whose decoder forgets a pending escape between two reads
RECURSIVE KissDecodeLoopForgetful(_, _, _)
KissDecodeLoopForgetful(c, src, acc) ==
    LET r == KissDecode([c EXCEPT !.escaped = FALSE], src)
    IN  IF r.frame.ok
        THEN KissDecodeLoopForgetful(r.codec, r.src, Append(acc, r.frame.data))
        ELSE [codec |-> r.codec, src |-> r.src, frames |-> acc]

\* run_kiss_protocol: while let Some(frame) = codec.decode(&mut read_buf),
\* the frames it takes: [codec, src, frames]
RECURSIVE KissDecodeLoop(_, _, _)
KissDecodeLoop(c, src, acc) ==
    LET r == KissDecode(c, src)
    IN  IF r.frame.ok
        THEN KissDecodeLoop(r.codec, r.src, Append(acc, r.frame.data))
        ELSE [codec |-> r.codec, src |-> r.src, frames |-> acc]

(***************************************************************************)
(* AX.25 UI frames (serial/mod.rs)                                         *)
(***************************************************************************)

\* encode_ax25_address: seven bytes
EncodeAx25Address(call, last) ==
    LET ssid_byte == BitOr(Shl(call.ssid, 1), 96)
    IN  [i \in 1..7 |->
            IF i <= 6
            THEN IF i <= Len(call.call) THEN Shl(ByteOf(call.call[i]), 1) ELSE Shl(32, 1)
            ELSE IF last THEN BitOr(ssid_byte, 1) ELSE ssid_byte]

RECURSIVE EncodePath(_)
EncodePath(path) ==
    IF Len(path) = 0 THEN <<>>
    ELSE EncodeAx25Address(Head(path), Len(path) = 1) \o EncodePath(Tail(path))

\* aprs_to_ax25
AprsToAx25(p) ==
    EncodeAx25Address(p.destination, FALSE)
        \o EncodeAx25Address(p.source, Len(p.path) = 0)
        \o EncodePath(p.path)
        \o <<3, 240>>
        \o AsBytes(p.information)

\* decode_ax25_address, of seven bytes
DecodeAx25Address(data) ==
    LET RECURSIVE CallText(_)
        CallText(k) ==
            IF k > 6 THEN <<>>
            ELSE (IF CharOf(Shr(data[k], 1)) # " " THEN <<CharOf(Shr(data[k], 1))>>
                  ELSE <<>>) \o CallText(k + 1)
        ssid == BitAnd(Shr(data[7], 1), 15)
    IN  CallText(1) \o (IF ssid > 0 THEN <<"-">> \o FmtNat(ssid) ELSE <<>>)

\* ax25_to_aprs, the loop over the digipeater addresses: i counts the
\* bytes taken so far, as in the source
RECURSIVE Ax25PathLoop(_, _, _)
Ax25PathLoop(frame, i, text) ==
    IF i < Len(frame) /\ BitAnd(frame[i], 1) = 0 /\ i + 7 <= Len(frame)
    THEN Ax25PathLoop(frame, i + 7,
                      text \o <<",">> \o DecodeAx25Address(SubSeq(frame, i + 1, i + 7)))
    ELSE [i |-> i, text |-> text]

\* ax25_to_aprs: [ok, text]
Ax25ToAprs(frame) ==
    IF Len(frame) < 16 THEN [ok |-> FALSE]
    ELSE LET dest == DecodeAx25Address(SubSeq(frame, 1, 7))
             src == DecodeAx25Address(SubSeq(frame, 8, 14))
             head == src \o <<">">> \o dest
             path == IF BitAnd(frame[14], 1) = 0
                     THEN Ax25PathLoop(frame, 14, head)
                     ELSE [i |-> 14, text |-> head]
             i == path.i
         IN  [ok |-> TRUE,
              text |-> IF i + 2 <= Len(frame) /\ frame[i + 1] = 3 /\ frame[i + 2] = 240
                       THEN path.text \o <<":">>
                                \o FromBytes(SubSeq(frame, i + 3, Len(frame)))
                       ELSE path.text]

\* run_kiss_protocol: the packets of the frames one read brought, those
\* that ax25_to_aprs and parse_packet accept, in order
RECURSIVE FramesToPackets(_)
FramesToPackets(fs) ==
    IF Len(fs) = 0 THEN <<>>
    ELSE LET text == Ax25ToAprs(Head(fs))
             parsed == IF text.ok THEN ParsePacket(text.text) ELSE [ok |-> FALSE]
         IN  (IF parsed.ok THEN <<parsed.pkt>> ELSE <<>>) \o FramesToPackets(Tail(fs))

(***************************************************************************)
(* Bounds of the model                                                     *)
(***************************************************************************)

\* how many packets the serial links and the APRS-IS connection deliver
MaxPush == 2
\* the capacities of the ingress queue, the digipeater-feed and the
\* message-feed (1000, 100 and 100 in main.rs and router.rs), scaled down
IngressCap == 2
DigiFeedCap == 1
MsgFeedCap == 1


(***************************************************************************)
(* The state                                                               *)
(***************************************************************************)

VARIABLES
    cfg,        \* the configuration (config.rs), fixed at boot
    inputs,     \* the lines the serial links and the APRS-IS server deliver
    now,        \* the clock, in seconds
    advances,   \* how many steps of the timeline have passed
    offered,    \* how many packets of inputs.offers were handed over
    ingress,    \* the ingress queue (main.rs, packet_tx / packet_rx)
    digiFeed,   \* the digipeater-feed (digipeater_tx / digipeater_rx)
    msgFeed,    \* the message-feed (message_tx / message_rx)
    rfOut,      \* what was published to RF-egress (rf_tx), in order
    isOut,      \* what was published to IS-egress (is_tx), in order
    recent,     \* PacketRouter.recent_packets
    rpc,        \* where the router task stands: "recv", "digi_send", "msg_send"
    rcur,       \* the packet route_packet is working on
    rtick,      \* when the router's housekeeping tick is next due
    digiRecent, \* DigipeaterState.recent_packets
    dpc,        \* where the digipeater task stands: "recv", "send"
    dcur,       \* the rewritten packet the digipeater is sending
    dtick,      \* when the digipeater's cleanup is next due
    received,   \* MessageHandler.received_messages
    pending,    \* MessageHandler.pending_acks
    mpc,        \* where the message handler stands: "recv", "ack_send", "status_send"
    mcur,       \* the replies the message handler still has to send
    stats,      \* TELEMETRY_STATS
    nextId,     \* history: the number the next pushed packet gets
    routeLog,   \* history: one entry per call of route_packet
    digiLog,    \* history: one entry per packet the digipeater took
    written,    \* the bytes port.write_all put on the serial wire
    stream,     \* the bytes on the wire that port.read has not yet returned
    read_buf,   \* run_kiss_protocol's read_buf
    codec,      \* the KissCodec: decode_buf, in_frame, escaped
    frames,     \* the frames KissCodec::decode returned, in order
    subject,    \* the value a conversion is applied to
    converted,  \* what the conversion returned
    isTask,     \* where the APRS-IS task stands (network.rs)
    serialTask, \* where the task of the serial port stands (serial/mod.rs)
    beacon,     \* the BeaconService: last_position, last_beacon_time, stationary_count
    lastTick    \* what the last check tick of the beacon service saw and decided

cfgVars == <<cfg, inputs>>
clockVars == <<now, advances, offered>>
routerVars == <<recent, rpc, rcur, rtick>>
digiVars == <<digiRecent, dpc, dcur, dtick>>
msgVars == <<received, pending, mpc, mcur>>
kissVars == <<written, stream, read_buf, codec, frames>>
taskVars == <<isTask, serialTask>>
beaconVars == <<beacon, lastTick>>
codecVars == <<written, stream, read_buf, codec, frames, subject, converted,
               isTask, serialTask>>
vars == <<cfg, inputs, now, advances, offered, ingress, digiFeed, msgFeed, rfOut, isOut,
          recent, rpc, rcur, rtick, digiRecent, dpc, dcur, dtick,
          received, pending, mpc, mcur, stats, nextId, routeLog, digiLog,
          written, stream, read_buf, codec, frames, subject, converted,
          isTask, serialTask,
          beacon, lastTick>>

SerialTag(name) == [kind |-> "SerialPort", name |-> name]
AprsIsTag == [kind |-> "AprsIs", name |-> ""]
InternalTag == [kind |-> "Internal", name |-> ""]

\* RoutedPacket, with the history fields id (the order of the pushes) and
\* from (the id of the packet a reply or a digipeated copy was made from)
Routed(packet, tag, id, from) ==
    [packet |-> packet, source |-> tag, id |-> id, from |-> from]

NoPacket == [ok |-> FALSE]
EmptyMap == [k \in {} |-> 0]

\* a queue that hands out the newest value first
EnqueueLifo(q, e) == <<e>> \o q

\* mpsc::Sender::send: the value goes to the back of the queue
Enqueue(q, e) == Append(q, e)
\* mpsc::Receiver::recv: the value at the front of the queue
Front(q) == Head(q)

\* tokio::time::interval: the first due time after t, ticks that were
\* missed being delivered at once
NextDue(due, t, period) == due + ((t - due) \div period + 1) * period

\* an RF-egress nobody listens to
RfSubscribedNever(c) == FALSE

\* broadcast::Sender::send fails when nobody is subscribed; every serial
\* port subscribes to RF-egress at boot (main.rs)
RfSubscribed(c) == Len(c.serial_ports) > 0

(***************************************************************************)
(* The ingress tasks (serial/mod.rs, network.rs)                           *)
(***************************************************************************)

\* run_tnc2_protocol, the read arm: one line from the TNC is parsed and, if
\* it parses and the port has rx_enable, sent to the ingress queue (the
\* task waits while the queue is full)
SerialPush(port, line, limit) ==
    LET parsed == ParsePacket(line)
    IN  /\ nextId <= limit
        /\ parsed.ok
        /\ cfg.serial_ports[port].rx_enable
        /\ Len(ingress) < IngressCap
        /\ ingress' = Enqueue(ingress,
                Routed(parsed.pkt, SerialTag(cfg.serial_ports[port].name), nextId, 0))
        /\ nextId' = nextId + 1
        /\ UNCHANGED <<cfgVars, beaconVars, codecVars, clockVars, digiFeed, msgFeed, rfOut, isOut,
                       routerVars, digiVars, msgVars, stats, routeLog, digiLog>>

\* the read arm in the runs with at most MaxPush packets
SerialRx(port, line) == SerialPush(port, line, MaxPush)

\* connect_and_run, the read arm: a line that is no comment is parsed and,
\* with rx_enable, sent to the ingress queue
AprsIsRx(line) ==
    LET trimmed == Trim(line)
        parsed == ParsePacket(trimmed)
    IN  /\ nextId <= MaxPush
        /\ cfg.aprs_is.present
        /\ ~StartsWith(trimmed, <<"#">>)
        /\ Len(trimmed) > 0
        /\ parsed.ok
        /\ cfg.aprs_is.rx_enable
        /\ Len(ingress) < IngressCap
        /\ ingress' = Enqueue(ingress, Routed(parsed.pkt, AprsIsTag, nextId, 0))
        /\ nextId' = nextId + 1
        /\ UNCHANGED <<cfgVars, beaconVars, codecVars, clockVars, digiFeed, msgFeed, rfOut, isOut,
                       routerVars, digiVars, msgVars, stats, routeLog, digiLog>>

(***************************************************************************)
(* The router task (router.rs)                                             *)
(***************************************************************************)

\* a router that takes every packet for a packet from a serial port
ArmOfSerialPort(source) == "SerialPort"

\* route_packet: match &routed.source, the arm a packet is routed by
ArmOf(source) == source.kind

LogEntry(rp, outcome, sinks, done) ==
    [rp |-> rp, t |-> now, outcome |-> outcome, sinks |-> sinks, done |-> done]

\* the entry of the packet route_packet is working on gets a sink more
LogSink(log, sink) ==
    [log EXCEPT ![Len(log)].sinks = log[Len(log)].sinks \cup sink]

\* PacketRouter::run takes the next packet; route_packet up to its first
\* send into a bounded queue: the duplicate check, the filter, and the
\* whole of the AprsIs and Internal arms
RouterRecv ==
    /\ rpc = "recv"
    /\ Len(ingress) > 0
    /\ LET rp == Front(ingress)
           packet_str == PacketToString(rp.packet)
           gate == /\ cfg.aprs_is.present
                   /\ cfg.aprs_is.tx_enable
                   /\ ShouldGateToRf(cfg.mycall, rp.packet)
           toIs == cfg.aprs_is.present /\ cfg.aprs_is.tx_enable
       IN
       /\ ingress' = Tail(ingress)
       /\ IF IsDuplicate(recent, packet_str, now, cfg.digipeater.viscous_delay)
          THEN /\ routeLog' = Append(routeLog, LogEntry(rp, "duplicate", {}, TRUE))
               /\ UNCHANGED <<recent, rpc, rcur, rfOut, isOut, stats>>
          ELSE IF ~ShouldPass(cfg.filters, rp.packet)
          THEN /\ routeLog' = Append(routeLog, LogEntry(rp, "filtered", {}, TRUE))
               /\ UNCHANGED <<recent, rpc, rcur, rfOut, isOut, stats>>
          ELSE IF ArmOf(rp.source) = "SerialPort"
          THEN /\ stats' = [stats EXCEPT !.packets_rx = @ + 1]
               /\ rpc' = "digi_send"
               /\ rcur' = rp
               /\ routeLog' = Append(routeLog, LogEntry(rp, "routed", {}, FALSE))
               /\ UNCHANGED <<recent, rfOut, isOut>>
          ELSE IF ArmOf(rp.source) = "AprsIs"
          THEN /\ rfOut' = IF gate /\ RfSubscribed(cfg) THEN Append(rfOut, rp) ELSE rfOut
               /\ stats' = IF gate /\ RfSubscribed(cfg)
                           THEN [stats EXCEPT !.packets_igate_is_to_rf = @ + 1,
                                              !.packets_tx = @ + 1]
                           ELSE stats
               /\ recent' = StorePacketHash(recent, packet_str, now)
               /\ routeLog' = Append(routeLog,
                      LogEntry(rp, "routed",
                               IF gate /\ RfSubscribed(cfg) THEN {"rf"} ELSE {}, TRUE))
               /\ UNCHANGED <<rpc, rcur, isOut>>
          ELSE /\ rfOut' = IF RfSubscribed(cfg) THEN Append(rfOut, rp) ELSE rfOut
               /\ stats' = IF RfSubscribed(cfg)
                           THEN [stats EXCEPT !.packets_tx = @ + 1] ELSE stats
               /\ isOut' = IF toIs THEN Append(isOut, rp) ELSE isOut
               /\ recent' = StorePacketHash(recent, packet_str, now)
               /\ routeLog' = Append(routeLog,
                      LogEntry(rp, "routed",
                               (IF RfSubscribed(cfg) THEN {"rf"} ELSE {})
                                   \cup (IF toIs THEN {"is"} ELSE {}), TRUE))
               /\ UNCHANGED <<rpc, rcur>>
    /\ UNCHANGED <<cfgVars, beaconVars, codecVars, clockVars, digiFeed, msgFeed, rtick, digiVars, msgVars,
                   nextId, digiLog>>

\* route_packet, SerialPort arm: digipeater_tx.send(..).await, which waits
\* while the digipeater-feed is full, and then the gate to APRS-IS
RouterDigiSend ==
    /\ rpc = "digi_send"
    /\ LET toDigi == cfg.digipeater.enabled
           toIs == /\ ~HasRfonly(rcur.packet)
                   /\ ~HasNogate(rcur.packet)
                   /\ cfg.aprs_is.present
                   /\ cfg.aprs_is.rx_enable
       IN
       /\ toDigi => Len(digiFeed) < DigiFeedCap
       /\ digiFeed' = IF toDigi THEN Enqueue(digiFeed, rcur) ELSE digiFeed
       /\ isOut' = IF toIs THEN Append(isOut, rcur) ELSE isOut
       /\ stats' = [stats EXCEPT
                      !.packets_digipeated = IF toDigi THEN @ + 1 ELSE @,
                      !.packets_igate_rf_to_is = IF toIs THEN @ + 1 ELSE @]
       /\ routeLog' = LogSink(routeLog, (IF toDigi THEN {"digi"} ELSE {})
                                            \cup (IF toIs THEN {"is"} ELSE {}))
    /\ rpc' = "msg_send"
    /\ UNCHANGED <<cfgVars, beaconVars, codecVars, clockVars, ingress, msgFeed, rfOut, recent, rcur, rtick,
                   digiVars, msgVars, nextId, digiLog>>

\* route_packet, SerialPort arm: message_tx.send(..).await, which waits
\* while the message-feed is full, and then store_packet_hash
RouterMsgSend ==
    /\ rpc = "msg_send"
    /\ LET toMsg == rcur.packet.destination.call = cfg.mycall
       IN
       /\ toMsg => Len(msgFeed) < MsgFeedCap
       /\ msgFeed' = IF toMsg THEN Enqueue(msgFeed, rcur) ELSE msgFeed
       /\ routeLog' = [LogSink(routeLog, IF toMsg THEN {"msg"} ELSE {})
                          EXCEPT ![Len(routeLog)].done = TRUE]
    /\ recent' = StorePacketHash(recent, PacketToString(rcur.packet), now)
    /\ rpc' = "recv"
    /\ rcur' = NoPacket
    /\ UNCHANGED <<cfgVars, beaconVars, codecVars, clockVars, ingress, digiFeed, rfOut, isOut, rtick,
                   digiVars, msgVars, stats, nextId, digiLog>>

\* PacketRouter::run, the housekeeping tick
RouterTick ==
    /\ rpc = "recv"
    /\ now >= rtick
    /\ recent' = CleanupRecentPackets(recent, now)
    /\ rtick' = NextDue(rtick, now, RouterTickPeriod)
    /\ UNCHANGED <<cfgVars, beaconVars, codecVars, clockVars, ingress, digiFeed, msgFeed, rfOut, isOut,
                   rpc, rcur, digiVars, msgVars, stats, nextId, routeLog, digiLog>>

(***************************************************************************)
(* The digipeater task (digipeater.rs)                                     *)
(***************************************************************************)

\* run_digipeater takes the next packet: should_digipeat and process_packet
DigiRecv ==
    /\ dpc = "recv"
    /\ Len(digiFeed) > 0
    /\ LET rp == Front(digiFeed)
           admitted == ShouldDigipeat(cfg.digipeater, rp.packet)
           seen == DigiSeenRecently(cfg.digipeater, rp.packet, digiRecent, now)
           res == ProcessPacket(cfg.digipeater, rp.packet, digiRecent, now)
       IN
       /\ digiFeed' = Tail(digiFeed)
       /\ digiRecent' = IF admitted THEN res.recent_packets ELSE digiRecent
       /\ dpc' = IF admitted /\ res.out.ok THEN "send" ELSE "recv"
       /\ dcur' = IF admitted /\ res.out.ok
                  THEN [ok |-> TRUE, pkt |-> res.out.pkt, from |-> rp.id]
                  ELSE NoPacket
       /\ digiLog' = Append(digiLog,
              [rp |-> rp, t |-> now, admitted |-> admitted,
               seen |-> seen,
               out |-> IF admitted THEN res.out ELSE NoPacket])
    /\ UNCHANGED <<cfgVars, beaconVars, codecVars, clockVars, ingress, msgFeed, rfOut, isOut, routerVars,
                   dtick, msgVars, stats, nextId, routeLog>>

\* run_digipeater: tx.send(routed_digi).await, which waits while the
\* ingress queue is full
DigiSend ==
    /\ dpc = "send"
    /\ Len(ingress) < IngressCap
    /\ ingress' = Enqueue(ingress, Routed(dcur.pkt, InternalTag, nextId, dcur.from))
    /\ nextId' = nextId + 1
    /\ dpc' = "recv"
    /\ dcur' = NoPacket
    /\ UNCHANGED <<cfgVars, beaconVars, codecVars, clockVars, digiFeed, msgFeed, rfOut, isOut, routerVars,
                   digiRecent, dtick, msgVars, stats, routeLog, digiLog>>

\* the cleanup task run_digipeater spawns
DigiCleanup ==
    /\ cfg.digipeater.enabled
    /\ now >= dtick
    /\ digiRecent' = CleanupOldPackets(digiRecent, now)
    /\ dtick' = NextDue(dtick, now, DigiTickPeriod)
    /\ UNCHANGED <<cfgVars, beaconVars, codecVars, clockVars, ingress, digiFeed, msgFeed, rfOut, isOut,
                   routerVars, dpc, dcur, msgVars, stats, nextId, routeLog, digiLog>>

(***************************************************************************)
(* The message handler task (message.rs)                                   *)
(***************************************************************************)

\* MessageHandler::run takes the next packet; handle_message up to its
\* first send into the ingress queue
MsgRecv ==
    /\ mpc = "recv"
    /\ Len(msgFeed) > 0
    /\ LET rp == Front(msgFeed)
           h == IF rp.packet.data_type = "Message"
                THEN HandleMessage(cfg.mycall, rp.packet)
                ELSE [kind |-> "ignore", msg_id |-> <<>>, key |-> <<>>,
                      ack |-> NoPacket, status |-> NoPacket]
       IN
       /\ msgFeed' = Tail(msgFeed)
       /\ pending' = IF h.kind = "ackrej"
                     THEN [k \in DOMAIN pending \ {h.msg_id} |-> pending[k]]
                     ELSE pending
       /\ received' = IF h.ack.ok /\ h.key \notin DOMAIN received
                      THEN [k \in DOMAIN received \cup {h.key} |->
                               IF k = h.key THEN now ELSE received[k]]
                      ELSE received
       /\ mpc' = IF h.ack.ok THEN "ack_send"
                 ELSE IF h.status.ok THEN "status_send" ELSE "recv"
       /\ mcur' = IF h.ack.ok \/ h.status.ok
                  THEN [ack |-> h.ack, status |-> h.status, from |-> rp.id]
                  ELSE NoPacket
    /\ UNCHANGED <<cfgVars, beaconVars, codecVars, clockVars, ingress, digiFeed, rfOut, isOut, routerVars,
                   digiVars, stats, nextId, routeLog, digiLog>>

\* handle_incoming_message: tx.send(routed_ack).await
MsgAckSend ==
    /\ mpc = "ack_send"
    /\ Len(ingress) < IngressCap
    /\ ingress' = Enqueue(ingress, Routed(mcur.ack.pkt, InternalTag, nextId, mcur.from))
    /\ nextId' = nextId + 1
    /\ mpc' = IF mcur.status.ok THEN "status_send" ELSE "recv"
    /\ mcur' = IF mcur.status.ok THEN mcur ELSE NoPacket
    /\ UNCHANGED <<cfgVars, beaconVars, codecVars, clockVars, digiFeed, msgFeed, rfOut, isOut, routerVars,
                   digiVars, received, pending, stats, routeLog, digiLog>>

\* send_status_reply: tx.send(routed).await
MsgStatusSend ==
    /\ mpc = "status_send"
    /\ Len(ingress) < IngressCap
    /\ ingress' = Enqueue(ingress,
                          Routed(mcur.status.pkt, InternalTag, nextId, mcur.from))
    /\ nextId' = nextId + 1
    /\ mpc' = "recv"
    /\ mcur' = NoPacket
    /\ UNCHANGED <<cfgVars, beaconVars, codecVars, clockVars, digiFeed, msgFeed, rfOut, isOut, routerVars,
                   digiVars, received, pending, stats, routeLog, digiLog>>

(***************************************************************************)
(* Time                                                                    *)
(***************************************************************************)

\* time passes: the next step of the scenario's timeline
Advance ==
    /\ advances < Len(inputs.steps)
    /\ now' = now + inputs.steps[advances + 1]
    /\ advances' = advances + 1
    /\ UNCHANGED <<cfgVars, beaconVars, codecVars, offered, ingress, digiFeed, msgFeed, rfOut, isOut, routerVars,
                   digiVars, msgVars, stats, nextId, routeLog, digiLog>>

(***************************************************************************)
(* Configurations and inputs                                               *)
(***************************************************************************)

Port(name) == [name |-> name, rx_enable |-> TRUE, tx_enable |-> TRUE]

AprsIsCfg(present, tx, rx) ==
    [present |-> present, tx_enable |-> tx, rx_enable |-> rx]

DigiCfg(enabled, mycall, aliases, viscous_delay, max_hops) ==
    [enabled |-> enabled, mycall |-> Str(mycall), aliases |-> aliases,
     viscous_delay |-> viscous_delay, max_hops |-> max_hops]

\* the configuration of the unit tests of digipeater.rs, with an I-gate
CfgA == [mycall |-> Str("N0CALL-10"),
         serial_ports |-> <<Port("tnc0")>>,
         aprs_is |-> AprsIsCfg(TRUE, TRUE, TRUE),
         digipeater |-> DigiCfg(TRUE, "N0CALL-10",
                                <<Str("WIDE1-1"), Str("RELAY")>>, 1, 2),
         filters |-> <<>>]

\* a station without SSID, the alias RELAY, a long viscous delay
CfgB == [mycall |-> Str("N0CALL"),
         serial_ports |-> <<Port("tnc0")>>,
         aprs_is |-> AprsIsCfg(TRUE, TRUE, TRUE),
         digipeater |-> DigiCfg(TRUE, "N0CALL", <<Str("RELAY")>>, 400, 1),
         filters |-> <<>>]

\* a receive-only I-gate with a drop rule and no digipeater
CfgC == [mycall |-> Str("N0CALL-10"),
         serial_ports |-> <<Port("tnc0")>>,
         aprs_is |-> AprsIsCfg(TRUE, FALSE, TRUE),
         digipeater |-> DigiCfg(FALSE, "N0CALL-10", <<>>, 2, 2),
         filters |-> <<[pattern |-> Str("SPAM"), action |-> "drop"]>>]

\* no APRS-IS at all
CfgD == [mycall |-> Str("N0CALL"),
         serial_ports |-> <<Port("tnc0")>>,
         aprs_is |-> AprsIsCfg(FALSE, FALSE, FALSE),
         digipeater |-> DigiCfg(TRUE, "N0CALL", <<Str("RELAY")>>, 0, 2),
         filters |-> <<>>]

\* an APRS-IS connection that may send to RF but takes nothing from it
CfgE == [mycall |-> Str("N0CALL-10"),
         serial_ports |-> <<Port("tnc0")>>,
         aprs_is |-> AprsIsCfg(TRUE, TRUE, FALSE),
         digipeater |-> DigiCfg(FALSE, "N0CALL-10", <<>>, 2, 2),
         filters |-> <<>>]

\* a digipeater whose APRS-IS connection may not carry our own packets
CfgF == [mycall |-> Str("N0CALL"),
         serial_ports |-> <<Port("tnc0")>>,
         aprs_is |-> AprsIsCfg(TRUE, FALSE, TRUE),
         digipeater |-> DigiCfg(TRUE, "N0CALL", <<Str("RELAY")>>, 2, 2),
         filters |-> <<>>]

\* what the outside world delivers in one scenario: the lines heard on the
\* serial port, the lines the APRS-IS server sends, and the timeline: the
\* steps (seconds) by which the clock advances, in order
Scenario(c, serial, is, steps) ==
    [cfg |-> c, serial |-> serial, is |-> is, steps |-> steps]

ScenarioA ==
    Scenario(CfgA,
             {Str("TEST>APRS,WIDE2-2:>hi"), Str("TEST>APRS,WIDE1-1:>hi"),
              Str("TEST>APRS,RELAY:>hi")},
             {Str("N0CALL-10>APRS:>hi")},
             <<1>>)

ScenarioB ==
    Scenario(CfgB,
             {Str("W1AW>N0CALL,RELAY::N0CALL   :?APRST{1"),
              Str("W1AW-1>N0CALL:>RFONLY")},
             {Str("N0CALL-5>APRS:>hi")},
             <<300>>)

ScenarioC ==
    Scenario(CfgC,
             {Str("W1AW>APRS:>NOGATE"), Str("W1AW>APRS:>SPAM"), Str("W1AW>APRS:>hi")},
             {Str("W1AW>APRS,TCPIP*:>hi")},
             <<1>>)

ScenarioD ==
    Scenario(CfgD,
             {Str("W1AW>APRS,RELAY:>hi"), Str("W1AW>N0CALL::N0CALL   :hi")},
             {},
             <<1>>)

ScenarioE ==
    Scenario(CfgE,
             {Str("W1AW>APRS:>hi"), Str("W1AW>APRS:>RFONLY")},
             {Str("W1AW>APRS:>hi")},
             <<1>>)

ScenarioF ==
    Scenario(CfgF,
             {Str("W1AW>N0CALL-5,RELAY:>hi")},
             {},
             <<1>>)

InitState ==
    /\ now = 0
    /\ advances = 0
    /\ offered = 0
    /\ ingress = <<>>
    /\ digiFeed = <<>>
    /\ msgFeed = <<>>
    /\ rfOut = <<>>
    /\ isOut = <<>>
    /\ recent = <<>>
    /\ rpc = "recv"
    /\ rcur = NoPacket
    /\ rtick = RouterTickPeriod
    /\ digiRecent = EmptyMap
    /\ dpc = "recv"
    /\ dcur = NoPacket
    /\ dtick = DigiTickPeriod
    /\ received = EmptyMap
    /\ pending = EmptyMap
    /\ mpc = "recv"
    /\ mcur = NoPacket
    /\ stats = [packets_rx |-> 0, packets_tx |-> 0, packets_digipeated |-> 0,
                packets_igate_rf_to_is |-> 0, packets_igate_is_to_rf |-> 0]
    /\ nextId = 1
    /\ routeLog = <<>>
    /\ digiLog = <<>>

\* KissCodec::new
KissCodecNew == [decode_buf |-> <<>>, in_frame |-> FALSE, escaped |-> FALSE]

\* BeaconService::new at time t
BeaconServiceNew(t) ==
    [last_position |-> [ok |-> FALSE], last_beacon_time |-> t, stationary_count |-> 0,
     ticks |-> 0]

\* no beacon is configured: the service is not started
InitNoBeacon ==
    /\ beacon = BeaconServiceNew(0)
    /\ lastTick = [kind |-> "none"]

\* both links are up: connect_and_run is in its loop and so is
\* run_kiss_protocol or run_tnc2_protocol
InitTasks ==
    /\ isTask = [pc |-> "run", failures |-> 0, result |-> "none",
                 wire |-> <<"r:banner", "w:login", "r:verified">>]
    /\ serialTask = [pc |-> "run", failures |-> 0, result |-> "none"]

\* nothing on the serial wire and no conversion under way
InitCodec ==
    /\ InitTasks
    /\ InitNoBeacon
    /\ written = <<>>
    /\ stream = <<>>
    /\ read_buf = <<>>
    /\ codec = KissCodecNew
    /\ frames = <<>>
    /\ subject = [kind |-> "none"]
    /\ converted = [kind |-> "none"]

InitOf(scenarios) ==
    /\ \E sc \in scenarios :
          /\ cfg = sc.cfg
          /\ inputs = [serial |-> sc.serial, is |-> sc.is, steps |-> sc.steps,
                       offers |-> <<>>]
    /\ InitState
    /\ InitCodec

Init == InitOf({ScenarioA, ScenarioB})

Next ==
    \/ \E line \in inputs.serial : SerialRx(1, line)
    \/ \E line \in inputs.is : AprsIsRx(line)
    \/ RouterRecv
    \/ RouterDigiSend
    \/ RouterMsgSend
    \/ RouterTick
    \/ DigiRecv
    \/ DigiSend
    \/ DigiCleanup
    \/ MsgRecv
    \/ MsgAckSend
    \/ MsgStatusSend
    \/ Advance

Spec == Init /\ [][Next]_vars

\* the station of CfgB hearing packets marked RFONLY and NOGATE that ask
\* for the alias RELAY
ScenarioG ==
    Scenario(CfgB,
             {Str("W1AW>APRS,RELAY:>RFONLY"), Str("W1AW>APRS,RELAY:>hi NOGATE")},
             {},
             <<1>>)

InitGate == InitOf({ScenarioB, ScenarioC, ScenarioD, ScenarioE, ScenarioF, ScenarioG})
SpecGate == InitGate /\ [][Next]_vars

(***************************************************************************)
(* The digipeater on its own: packets handed to it as the router hands     *)
(* them over, in both forms a CallSign takes in this code base:           *)
(* CallSign::new(text, 0), hop text and marker inside call, as the tests   *)
(* of digipeater.rs build a path, and CallSign::parse(text), as            *)
(* parse_packet builds it                                                  *)
(***************************************************************************)

\* the longest path of an offered packet
MaxPathLen == 2

HopTokens == {"WIDE1-1", "WIDE2-2", "WIDE7-7", "WIDE0-1", "WIDE8-1", "WIDE9-3",
              "WIDE1-0", "WIDE2-8", "N0CALL-10", "N0CALL", "RELAY", "W1AW",
              "N0CALL-10*", "RELAY*", "W1AW*"}

MergedHop(tok) == CallSignNew(Str(tok), 0)
ParsedHop(tok) == CallSignParse(Str(tok))

TokenPaths(n) == UNION {[1..k -> HopTokens] : k \in 0..n}

\* a packet from src with the given path tokens, the hops in one form
OfferedPacket(form, src, toks) ==
    [AprsPacketNew(CallSignNew(Str(src), 0), CallSignNew(Str("APRS"), 0), Str(">hi"))
        EXCEPT !.path = [i \in 1..Len(toks) |->
                            IF form = "new" THEN MergedHop(toks[i])
                            ELSE ParsedHop(toks[i])]]

Forms == {"new", "parse"}

\* every single packet, and every pair of packets with one hop
SingleOffers ==
    {<<OfferedPacket(f, "TEST", toks)>> : f \in Forms, toks \in TokenPaths(MaxPathLen)}

PairPackets ==
    {OfferedPacket(f, src, <<tok>>) :
        f \in Forms, src \in {"TEST", "W1AW"}, tok \in {"WIDE2-2", "RELAY", "N0CALL"}}

PairOffers == {<<p, q>> : p \in PairPackets, q \in PairPackets}

\* the digipeater configurations and the timeline that goes with each
DigiScenarios ==
    {[cfg |-> [CfgA EXCEPT !.digipeater.viscous_delay = 2], steps |-> <<1, 1>>],
     [cfg |-> CfgB, steps |-> <<300, 100>>],
     [cfg |-> CfgC, steps |-> <<1>>]}

\* route_packet, SerialPort arm: digipeater_tx.send(..).await, seen from
\* the digipeater: the next packet arrives on the digipeater-feed
DigiOffer ==
    /\ offered < Len(inputs.offers)
    /\ Len(digiFeed) < DigiFeedCap
    /\ digiFeed' = Enqueue(digiFeed,
           Routed(inputs.offers[offered + 1], SerialTag("tnc0"), nextId, 0))
    /\ offered' = offered + 1
    /\ nextId' = nextId + 1
    /\ UNCHANGED <<cfgVars, beaconVars, codecVars, now, advances, ingress, msgFeed, rfOut, isOut, routerVars,
                   digiVars, msgVars, stats, routeLog, digiLog>>

InitDigi ==
    /\ \E sc \in DigiScenarios, offers \in SingleOffers \cup PairOffers :
          /\ cfg = sc.cfg
          /\ inputs = [serial |-> {}, is |-> {}, steps |-> sc.steps,
                       offers |-> offers]
    /\ InitState
    /\ InitCodec

NextDigi ==
    \/ DigiOffer
    \/ DigiRecv
    \/ DigiSend
    \/ DigiCleanup
    \/ Advance

SpecDigi == InitDigi /\ [][NextDigi]_vars

(***************************************************************************)
(* The vocabulary of the properties: a hop as the text of a TNC2 line      *)
(***************************************************************************)

HopText(h) == CallSignToString(h)
HopUsed(h) == ContainsChar(HopText(h), "*")
PathTexts(path) == [i \in 1..Len(path) |-> HopText(path[i])]
UsedCount(path) == Cardinality({i \in 1..Len(path) : HopUsed(path[i])})

\* the index of the first hop without the marker, 0 when there is none
FirstUnused(path) ==
    IF \E i \in 1..Len(path) : ~HopUsed(path[i])
    THEN CHOOSE i \in 1..Len(path) :
            ~HopUsed(path[i]) /\ \A j \in 1..(i - 1) : HopUsed(path[j])
    ELSE 0

\* WIDEn-N with n and N in 1..7
WideText(text) ==
    /\ Len(text) = 7
    /\ SubSeq(text, 1, 4) = Str("WIDE")
    /\ text[5] \in {"1", "2", "3", "4", "5", "6", "7"}
    /\ text[6] = "-"
    /\ text[7] \in {"1", "2", "3", "4", "5", "6", "7"}

PublishedToIs(id) == \E k \in 1..Len(isOut) : isOut[k].id = id
PublishedToRf(id) == \E k \in 1..Len(rfOut) : rfOut[k].id = id

SameProducer(a, b) ==
    /\ a.source = b.source
    /\ a.source.kind \in {"SerialPort", "AprsIs"}

(***************************************************************************)
(* The router's duplicate suppression                                      *)
(***************************************************************************)

\* C1: of two packets with the same text that the router takes less than
\* viscous_delay seconds apart, at most one is published to RF-egress,
\* IS-egress or a feed, whatever happened in between
C1_OneEgressWithinDelay ==
    \A i, j \in 1..Len(routeLog) :
        ( /\ i < j
          /\ PacketToString(routeLog[i].rp.packet) = PacketToString(routeLog[j].rp.packet)
          /\ routeLog[j].t - routeLog[i].t < cfg.digipeater.viscous_delay )
        => (routeLog[i].sinks = {} \/ routeLog[j].sinks = {})

(***************************************************************************)
(* Gating from RF to APRS-IS                                               *)
(***************************************************************************)

\* C2: a packet from a serial port that passed the duplicate check and the
\* filter is published to IS-egress exactly when its information field has
\* neither RFONLY nor NOGATE and an APRS-IS section with rx_enable exists
C2_SerialToIs ==
    \A i \in 1..Len(routeLog) :
        LET e == routeLog[i]
        IN  (e.rp.source.kind = "SerialPort" /\ e.outcome = "routed" /\ e.done)
            => ( PublishedToIs(e.rp.id)
                 <=> ( /\ ~Contains(e.rp.packet.information, Str("RFONLY"))
                       /\ ~Contains(e.rp.packet.information, Str("NOGATE"))
                       /\ cfg.aprs_is.present
                       /\ cfg.aprs_is.rx_enable ) )

\* C2: one serial packet was gated to APRS-IS and another one, with RFONLY,
\* was routed and kept from it
C2_Witness ==
    \E i, j \in 1..Len(routeLog) :
        /\ routeLog[i].rp.source.kind = "SerialPort"
        /\ routeLog[i].done /\ routeLog[i].outcome = "routed"
        /\ PublishedToIs(routeLog[i].rp.id)
        /\ routeLog[j].rp.source.kind = "SerialPort"
        /\ routeLog[j].done /\ routeLog[j].outcome = "routed"
        /\ Contains(routeLog[j].rp.packet.information, Str("RFONLY"))
        /\ ~PublishedToIs(routeLog[j].rp.id)

(***************************************************************************)
(* The digipeater                                                          *)
(***************************************************************************)

\* C3: an admitted packet that is no viscous duplicate and whose first
\* unused hop is WIDEn-N, not mycall or an alias, leaves with that hop
\* replaced by mycall* followed by WIDEn-(N-1) when N > 1, by mycall* alone
\* when N = 1, all other hops unchanged and in order
C3_WideRewrite ==
    \A i \in 1..Len(digiLog) :
        LET e == digiLog[i]
            path == e.rp.packet.path
            k == FirstUnused(path)
            text == HopText(path[k])
            n == DigitVal(text[7])
            mine == cfg.digipeater.mycall \o <<"*">>
            left == IF n > 1 THEN <<SubSeq(text, 1, 6) \o FmtNat(n - 1)>> ELSE <<>>
        IN  ( /\ e.admitted /\ ~e.seen
              /\ k # 0
              /\ WideText(text)
              /\ text # cfg.digipeater.mycall
              /\ ~InSeq(cfg.digipeater.aliases, text) )
            => /\ e.out.ok
               /\ PathTexts(e.out.pkt.path)
                    = PathTexts(SubSeq(path, 1, k - 1)) \o <<mine>> \o left
                        \o PathTexts(SubSeq(path, k + 1, Len(path)))

\* C4: a packet parsed from a TNC2 line and taken by run_digipeater is
\* digipeated whenever its first unused hop is WIDEn-N or mycall with its
\* SSID; TEST>APRS,WIDE2-2:>hi leaves N0CALL-10 as
\* TEST>APRS,N0CALL-10*,WIDE2-1:>hi and TEST>APRS,WIDE1-1:>hi as
\* TEST>APRS,N0CALL-10*:>hi
C4_ParsedLineDigipeated ==
    \A i \in 1..Len(digiLog) :
        LET e == digiLog[i]
            path == e.rp.packet.path
            k == FirstUnused(path)
            text == HopText(path[k])
        IN  ( /\ cfg.digipeater.enabled
              /\ ~e.seen
              /\ UsedCount(path) < cfg.digipeater.max_hops
              /\ k # 0
              /\ (WideText(text) \/ text = cfg.digipeater.mycall) )
            => /\ e.out.ok
               /\ ( /\ PacketToString(e.rp.packet) = Str("TEST>APRS,WIDE2-2:>hi")
                    /\ cfg.digipeater.mycall = Str("N0CALL-10") )
                  => PacketToString(e.out.pkt) = Str("TEST>APRS,N0CALL-10*,WIDE2-1:>hi")
               /\ ( /\ PacketToString(e.rp.packet) = Str("TEST>APRS,WIDE1-1:>hi")
                    /\ cfg.digipeater.mycall = Str("N0CALL-10") )
                  => PacketToString(e.out.pkt) = Str("TEST>APRS,N0CALL-10*:>hi")

\* C5: a packet whose path already has max_hops used hops is never
\* admitted nor rewritten, and the used hops the digipeater counts are the
\* used hops of the path's text, however the path was built
C5_HopCap ==
    \A i \in 1..Len(digiLog) :
        LET e == digiLog[i]
            path == e.rp.packet.path
            counted == Cardinality({h \in 1..Len(path) :
                                      ContainsChar(path[h].call, "*")})
        IN  /\ cfg.digipeater.enabled => counted = UsedCount(path)
            /\ UsedCount(path) >= cfg.digipeater.max_hops
                  => (~e.admitted /\ ~e.out.ok)

\* C6: of two admitted packets with the same source and information field
\* taken less than viscous_delay seconds apart, the first being
\* re-injected, the second is not, whatever their paths
C6_ViscousKey ==
    \A i, j \in 1..Len(digiLog) :
        ( /\ i < j
          /\ digiLog[i].admitted /\ digiLog[j].admitted
          /\ CallSignToString(digiLog[i].rp.packet.source)
                = CallSignToString(digiLog[j].rp.packet.source)
          /\ digiLog[i].rp.packet.information = digiLog[j].rp.packet.information
          /\ digiLog[j].t - digiLog[i].t < cfg.digipeater.viscous_delay
          /\ digiLog[i].out.ok )
        => ~digiLog[j].out.ok

\* C7: should_digipeat admits a packet exactly when the digipeater is
\* enabled, fewer than max_hops hops are used, and the first unused hop is
\* mycall, an alias, or WIDE + a digit 1..7 + "-" + an integer 1..7
C7_ShouldDigipeatIff ==
    \A i \in 1..Len(digiLog) :
        LET e == digiLog[i]
            path == e.rp.packet.path
            k == FirstUnused(path)
            text == HopText(path[k])
        IN  e.admitted
            <=> ( /\ cfg.digipeater.enabled
                  /\ UsedCount(path) < cfg.digipeater.max_hops
                  /\ k # 0
                  /\ \/ text = cfg.digipeater.mycall
                     \/ InSeq(cfg.digipeater.aliases, text)
                     \/ WideText(text) )

(***************************************************************************)
(* The router and its queues                                               *)
(***************************************************************************)

\* C8: the router never waits on a full digipeater-feed or message-feed
C8_RouterNeverWaits ==
    /\ ~( /\ rpc = "digi_send"
          /\ cfg.digipeater.enabled
          /\ Len(digiFeed) >= DigiFeedCap )
    /\ ~( /\ rpc = "msg_send"
          /\ rcur.packet.destination.call = cfg.mycall
          /\ Len(msgFeed) >= MsgFeedCap )

\* C9: packets of one producer (a serial port or the APRS-IS connection)
\* are routed in the order they were pushed and appear on RF-egress and
\* IS-egress in that order, and a packet made from another one is routed
\* after the one it was made from
C9_FifoOrder ==
    /\ \A i, j \in 1..Len(routeLog) :
          (i < j /\ SameProducer(routeLog[i].rp, routeLog[j].rp))
          => routeLog[i].rp.id < routeLog[j].rp.id
    /\ \A i, j \in 1..Len(rfOut) :
          (i < j /\ SameProducer(rfOut[i], rfOut[j])) => rfOut[i].id < rfOut[j].id
    /\ \A i, j \in 1..Len(isOut) :
          (i < j /\ SameProducer(isOut[i], isOut[j])) => isOut[i].id < isOut[j].id
    /\ \A j \in 1..Len(routeLog) :
          routeLog[j].rp.from # 0
          => \E i \in 1..(j - 1) : routeLog[i].rp.id = routeLog[j].rp.from

\* C9: two packets of the serial port are on IS-egress and a digipeated
\* copy of one of them has been routed
C9_Witness ==
    /\ \E i, j \in 1..Len(isOut) :
          i < j /\ SameProducer(isOut[i], isOut[j])
    /\ \E j \in 1..Len(routeLog) :
          /\ routeLog[j].rp.source.kind = "Internal"
          /\ routeLog[j].rp.from # 0
          /\ routeLog[j].outcome = "routed"

(***************************************************************************)
(* Gating from APRS-IS to RF                                               *)
(***************************************************************************)

\* C10: a packet from APRS-IS that passed the duplicate check and the
\* filter is published to RF-egress exactly when tx_enable is set, no hop
\* contains TCPIP, and its source, call and SSID, is not mycall
C10_IsToRf ==
    \A i \in 1..Len(routeLog) :
        LET e == routeLog[i]
            p == e.rp.packet
        IN  (e.rp.source.kind = "AprsIs" /\ e.outcome = "routed" /\ e.done)
            => ( PublishedToRf(e.rp.id)
                 <=> ( /\ cfg.aprs_is.present
                       /\ cfg.aprs_is.tx_enable
                       /\ \A h \in 1..Len(p.path) :
                             ~Contains(HopText(p.path[h]), Str("TCPIP"))
                       /\ CallSignToString(p.source) # cfg.mycall ) )

(***************************************************************************)
(* Packets of our own, and messages addressed to us                        *)
(***************************************************************************)

C12_MessageFeedIff ==
    \A i \in 1..Len(routeLog) :
        LET e == routeLog[i]
        IN  (e.rp.source.kind = "SerialPort" /\ e.outcome = "routed" /\ e.done)
            => ( "msg" \in e.sinks
                 <=> CallSignToString(e.rp.packet.destination) = cfg.mycall )

(***************************************************************************)
(* A KISS serial port with its transmit side wired to its receive side     *)
(***************************************************************************)

\* the longest payload handed to KissCodec::encode as bare bytes
MaxData == 3
\* run_kiss_protocol: the size of temp_buf
TempBufLen == 256

\* the bytes of the payloads: NUL, 'A', FEND, FESC, TFEND
DataBytes == {0, 65, KISS_FEND, KISS_FESC, KISS_TFEND}

ByteSeqs(n) == UNION {[1..k -> DataBytes] : k \in 0..n}

\* a packet as parse_packet builds it, from src with the given path tokens
Ax25Packet(src, toks) ==
    [AprsPacketNew(ParsedHop(src), ParsedHop("APRS"), Str(">hi"))
        EXCEPT !.path = [i \in 1..Len(toks) |-> ParsedHop(toks[i])]]

Ax25HopTokens == {"RELAY", "WIDE2-2", "RELAY*", "N0CALL-15*"}

Ax25Packets ==
    {Ax25Packet(src, toks) :
        src \in {"W1AW", "N0CALL-10"},
        toks \in UNION {[1..k -> Ax25HopTokens] : k \in 0..MaxPathLen}}

\* the most frames in one stream of bytes from the TNC
MaxFrames == 2

\* what a TNC puts between two FENDs: a data frame of port 0, one with an
\* escaped FEND, a TXDELAY frame, a data frame of port 1, a data frame with
\* no payload, nothing, a frame with 0xFF after FESC, and a frame cut
\* short after FESC
RawBodies ==
    {<<0, 65>>, <<0, KISS_FESC, KISS_TFEND>>, <<1, 16>>, <<16, 65>>, <<0>>, <<>>,
     <<0, KISS_FESC, 255, 65>>, <<0, 65, KISS_FESC>>}

\* the stream of the bodies, every frame between its own two FENDs, or
\* neighbours sharing the FEND between them
RECURSIVE RawStream(_, _)
RawStream(bodies, shared) ==
    IF Len(bodies) = 0 THEN <<>>
    ELSE IF shared
         THEN (IF Len(bodies) = 1 THEN <<KISS_FEND>> \o bodies[1] \o <<KISS_FEND>>
               ELSE <<KISS_FEND>> \o bodies[1] \o RawStream(Tail(bodies), shared))
         ELSE <<KISS_FEND>> \o bodies[1] \o <<KISS_FEND>> \o RawStream(Tail(bodies), shared)

RawSubjects ==
    {[kind |-> "raw", bodies |-> b, shared |-> sh] :
        b \in UNION {[1..k -> RawBodies] : k \in 1..MaxFrames}, sh \in BOOLEAN}

KissSubjects ==
    {[kind |-> "bytes", data |-> b] : b \in ByteSeqs(MaxData)}
        \cup {[kind |-> "packet", packet |-> p] : p \in Ax25Packets}
        \cup RawSubjects

\* the TNC writes its stream to the port, which run_kiss_protocol reads
TncSend ==
    /\ subject.kind = "raw"
    /\ converted.kind = "none"
    /\ stream' = RawStream(subject.bodies, subject.shared)
    /\ converted' = [kind |-> "sent"]
    /\ UNCHANGED <<cfgVars, beaconVars, clockVars, ingress, digiFeed, msgFeed, rfOut, isOut,
                   routerVars, digiVars, msgVars, stats, nextId, routeLog, digiLog,
                   written, read_buf, codec, frames, subject, taskVars>>

\* run_kiss_protocol, the transmit arm: the AX.25 frame of a packet (or the
\* payload itself) is encoded and written to the port
KissTx ==
    /\ written = <<>>
    /\ subject.kind \in {"bytes", "packet"}
    /\ cfg.serial_ports[1].tx_enable
    /\ LET ax25_frame == IF subject.kind = "packet"
                         THEN AprsToAx25(subject.packet) ELSE subject.data
           kiss_frame == KissEncode(ax25_frame, 0)
       IN  /\ written' = kiss_frame
           /\ stream' = kiss_frame
    /\ UNCHANGED <<cfgVars, beaconVars, clockVars, ingress, digiFeed, msgFeed, rfOut, isOut,
                   routerVars, digiVars, msgVars, stats, nextId, routeLog, digiLog,
                   read_buf, codec, frames, subject, converted, taskVars>>

\* run_kiss_protocol, the read arm: port.read returns the next n bytes, the
\* decoder is called until it returns None, and every frame that
\* ax25_to_aprs and parse_packet accept is sent to the ingress queue (the
\* step is taken when the queue has room for them)
KissRx(n) ==
    /\ n >= 1 /\ n <= Len(stream) /\ n <= TempBufLen
    /\ LET r == KissDecodeLoop(codec, read_buf \o SubSeq(stream, 1, n), <<>>)
           pkts == IF cfg.serial_ports[1].rx_enable
                   THEN FramesToPackets(r.frames) ELSE <<>>
       IN  /\ Len(ingress) + Len(pkts) <= IngressCap
           /\ stream' = SubSeq(stream, n + 1, Len(stream))
           /\ read_buf' = r.src
           /\ codec' = r.codec
           /\ frames' = frames \o r.frames
           /\ ingress' = ingress \o
                  [k \in 1..Len(pkts) |->
                      Routed(pkts[k], SerialTag(cfg.serial_ports[1].name),
                             nextId + k - 1, 0)]
           /\ nextId' = nextId + Len(pkts)
    /\ UNCHANGED <<cfgVars, beaconVars, clockVars, digiFeed, msgFeed, rfOut, isOut,
                   routerVars, digiVars, msgVars, stats, routeLog, digiLog,
                   written, subject, converted, taskVars>>

InitKiss ==
    /\ cfg = CfgD
    /\ inputs = [serial |-> {}, is |-> {}, steps |-> <<>>, offers |-> <<>>]
    /\ InitState
    /\ written = <<>>
    /\ stream = <<>>
    /\ read_buf = <<>>
    /\ codec = KissCodecNew
    /\ frames = <<>>
    /\ subject \in KissSubjects
    /\ converted = [kind |-> "none"]
    /\ InitTasks
    /\ InitNoBeacon

NextKiss ==
    \/ KissTx
    \/ TncSend
    \/ \E n \in 1..Len(stream) : KissRx(n)

SpecKiss == InitKiss /\ [][NextKiss]_vars

\* C13: for every byte sequence b, the empty one and those with 0xC0 and
\* 0xDB included, a fresh decoder fed encode(b, 0) returns exactly one
\* frame, and that frame is b
C13_KissRoundTrip ==
    (subject.kind = "bytes" /\ written # <<>> /\ stream = <<>>)
    => frames = <<subject.data>>

\* C13: for every byte sequence b that is not empty, those with 0xC0 and
\* 0xDB included, a fresh decoder fed encode(b, 0) returns exactly one
\* frame, and that frame is b; fed encode of the empty sequence it returns
\* no frame
C13_KissRoundTripNonEmpty ==
    (subject.kind = "bytes" /\ written # <<>> /\ stream = <<>>)
    => frames = IF subject.data = <<>> THEN <<>> ELSE <<subject.data>>

\* C13: a payload with FEND and FESC in it went through encoder and decoder
C13_Witness ==
    /\ subject.kind = "bytes"
    /\ \E i, j \in 1..Len(subject.data) :
          subject.data[i] = KISS_FEND /\ subject.data[j] = KISS_FESC
    /\ written # <<>> /\ stream = <<>>
    /\ frames = <<subject.data>>

\* C14: a packet with valid callsigns that went out as an AX.25 UI frame
\* comes back from ax25_to_aprs and parse_packet with the same source,
\* destination, path (call, SSID and used flag of every hop) and
\* information field
C14_Ax25RoundTrip ==
    (subject.kind = "packet" /\ written # <<>> /\ stream = <<>>)
    => /\ Len(ingress) = 1
       /\ ingress[1].packet.source = subject.packet.source
       /\ ingress[1].packet.destination = subject.packet.destination
       /\ ingress[1].packet.path = subject.packet.path
       /\ ingress[1].packet.information = subject.packet.information

(***************************************************************************)
(* Text to packet and back (aprs/parser.rs, aprs/packet.rs)                *)
(***************************************************************************)

SourceTokens == {"W1AW", "w1aw-5", "N0CALL-15*"}
DestTokens == {"APRS", "APRS-0"}
PathTokens ==
    {"WIDE1-1", "RELAY*", "X-16", "X-256", "n0call-+5", "A-1-2", "WIDE2-2 ", "", "Q**"}
InfoTexts == {">hi", ":N0CALL   :hi{1", "!x  ", "", "a:b"}

\* the callsign tokens CallSign::parse is tried on
CallTokens ==
    {"N0CALL", "n0call-7", "N0CALL-15", "N0CALL-16", "N0CALL-99", "N0CALL-255",
     "N0CALL-256", "N0CALL-1000", "N0CALL-15*", "N0CALL-16*", "relay*", "-5", "",
     "*", "N0CALL-", "N0CALL-X", "N0CALL-+5", "N0CALL-016", "A-1-2", "WIDE2-2"}

RECURSIVE JoinHops(_)
JoinHops(toks) ==
    IF Len(toks) = 0 THEN <<>>
    ELSE <<",">> \o Str(Head(toks)) \o JoinHops(Tail(toks))

\* a line SRC>DEST[,HOP...]:INFO
LineOf(src, dest, toks, info) ==
    Str(src) \o <<">">> \o Str(dest) \o JoinHops(toks) \o <<":">> \o Str(info)

\* the lines of test_parse_errors, and others parse_packet has to refuse
RefusedLines ==
    {Str(l) : l \in {"", "   ", "N0CALL>APRS", "N0CALL>:test", ">APRS:test",
                     "invalid packet", "W1AW:hi", "A>B>C:x", "W1AW-16>APRS,WIDE1-1:x",
                     "W1AW>APRS-99:x", "W1AW>,WIDE1-1:x"}}

TextLines ==
    {LineOf(src, dest, toks, info) :
        src \in SourceTokens, dest \in DestTokens,
        toks \in UNION {[1..k -> PathTokens] : k \in 0..MaxPathLen},
        info \in InfoTexts}
        \cup RefusedLines

\* send_beacon: the packet of a beacon with the configured callsign and
\* path and the information field info
SendBeaconPacket(callsign, path, info) ==
    LET source == IF CallSignParse(Str(callsign)).ok THEN CallSignParse(Str(callsign))
                  ELSE CallSignNew(Str("N0CALL"), 0)
        toks == IF Len(Str(path)) = 0 THEN <<>> ELSE Split(Str(path), ",")
        RECURSIVE Hops(_)
        Hops(ts) == IF Len(ts) = 0 THEN <<>>
                    ELSE (IF CallSignParse(Trim(Head(ts))).ok
                          THEN <<CallSignParse(Trim(Head(ts)))>> ELSE <<>>)
                         \o Hops(Tail(ts))
    IN  [AprsPacketNew(source, CallSignNew(Str("APRS"), 0), info)
            EXCEPT !.path = Hops(toks)]

\* the same with the information field written as a literal
BeaconPacket(callsign, path, info) == SendBeaconPacket(callsign, path, Str(info))

\* the packets the digipeater makes of packets parsed from lines
DigipeatedPackets ==
    {ProcessPacket(c.digipeater, p, EmptyMap, 0).out.pkt :
        <<c, p>> \in {<<c, p>> \in {CfgA, CfgB}
                        \X {OfferedPacket("parse", "TEST", toks) :
                                toks \in TokenPaths(MaxPathLen)} :
                        /\ ShouldDigipeat(c.digipeater, p)
                        /\ ProcessPacket(c.digipeater, p, EmptyMap, 0).out.ok}}

\* the acks and status replies the message handler makes
ReplyPackets ==
    LET msgs == {ParsePacket(Str(l)).pkt :
                    l \in {"W1AW-7>APRS::N0CALL   :?APRST{12",
                           "w1aw>APRS,RELAY*::N0CALL-10:hello{A }"}}
        hs == {HandleMessage(c.mycall, m) : c \in {CfgA, CfgB}, m \in msgs}
    IN  {h.ack.pkt : h \in {x \in hs : x.ack.ok}}
            \cup {h.status.pkt : h \in {x \in hs : x.status.ok}}

BuiltPackets ==
    DigipeatedPackets \cup ReplyPackets
        \cup {BeaconPacket(cs, path, "!4903.50N/07201.75W-aprstx") :
                cs \in {"N0CALL-9", "n0call", "N0CALL-77"},
                path \in {"", "WIDE1-1", "WIDE1-1, WIDE2-1", "WIDE1-1,,X-99"}}

\* the longest list of filter rules
MaxRules == 3

\* the rules of the tests of filter.rs and of test_filter_integration
FilterRules ==
    {[pattern |-> Str("RFONLY"), action |-> "drop"],
     [pattern |-> Str("EMERGENCY"), action |-> "pass"],
     [pattern |-> Str(".*"), action |-> "drop"],
     [pattern |-> Str("Test"), action |-> "pass"]}

FilterLists == UNION {[1..k -> FilterRules] : k \in 0..MaxRules}

\* the packets of those tests, and one that two rules match
FilterPackets ==
    {AprsPacketNew(CallSignNew(Str("N0CALL"), 0), CallSignNew(Str("APRS"), 0), Str(i)) :
        i \in {">Normal packet", ">Test RFONLY", ">EMERGENCY situation",
               ">EMERGENCY RFONLY"}}

TextSubjects ==
    {[kind |-> "line", line |-> l] : l \in TextLines}
        \cup {[kind |-> "token", token |-> Str(t)] : t \in CallTokens}
        \cup {[kind |-> "built", packet |-> p] : p \in BuiltPackets}
        \cup {[kind |-> "filter", filters |-> f, packet |-> p] :
                 f \in FilterLists, p \in FilterPackets}

\* parse_packet, impl Display for AprsPacket and parse_packet again
ParseFormatParse ==
    /\ subject.kind = "line"
    /\ converted.kind = "none"
    /\ LET first == ParsePacket(subject.line)
       IN  converted' = [kind |-> "parsed", first |-> first,
                         again |-> IF first.ok
                                   THEN ParsePacket(PacketToString(first.pkt))
                                   ELSE ParseErr]
    /\ UNCHANGED <<cfgVars, beaconVars, clockVars, ingress, digiFeed, msgFeed, rfOut, isOut,
                   routerVars, digiVars, msgVars, stats, nextId, routeLog, digiLog,
                   kissVars, subject, taskVars>>

\* impl Display for AprsPacket and parse_packet, of a packet made here
FormatParse ==
    /\ subject.kind = "built"
    /\ converted.kind = "none"
    /\ converted' = [kind |-> "reparsed", text |-> PacketToString(subject.packet),
                     again |-> ParsePacket(PacketToString(subject.packet))]
    /\ UNCHANGED <<cfgVars, beaconVars, clockVars, ingress, digiFeed, msgFeed, rfOut, isOut,
                   routerVars, digiVars, msgVars, stats, nextId, routeLog, digiLog,
                   kissVars, subject, taskVars>>

\* CallSign::parse of one token
ParseToken ==
    /\ subject.kind = "token"
    /\ converted.kind = "none"
    /\ converted' = [kind |-> "callsign", call |-> CallSignParse(subject.token)]
    /\ UNCHANGED <<cfgVars, beaconVars, clockVars, ingress, digiFeed, msgFeed, rfOut, isOut,
                   routerVars, digiVars, msgVars, stats, nextId, routeLog, digiLog,
                   kissVars, subject, taskVars>>

\* PacketFilter::should_pass of one packet under one list of rules
ApplyFilter ==
    /\ subject.kind = "filter"
    /\ converted.kind = "none"
    /\ converted' = [kind |-> "filtered",
                     pass |-> ShouldPass(subject.filters, subject.packet)]
    /\ UNCHANGED <<cfgVars, beaconVars, clockVars, ingress, digiFeed, msgFeed, rfOut, isOut,
                   routerVars, digiVars, msgVars, stats, nextId, routeLog, digiLog,
                   kissVars, subject, taskVars>>

InitText ==
    /\ cfg = CfgA
    /\ inputs = [serial |-> {}, is |-> {}, steps |-> <<>>, offers |-> <<>>]
    /\ InitState
    /\ written = <<>>
    /\ stream = <<>>
    /\ read_buf = <<>>
    /\ codec = KissCodecNew
    /\ frames = <<>>
    /\ subject \in TextSubjects
    /\ converted = [kind |-> "none"]
    /\ InitTasks
    /\ InitNoBeacon

NextText ==
    \/ ParseFormatParse
    \/ FormatParse
    \/ ParseToken
    \/ ApplyFilter

SpecText == InitText /\ [][NextText]_vars

\* C15: a packet parsed from a line, written as text and parsed again is
\* the same packet: source, destination, path (call, SSID and used flag of
\* every hop), data type and information field, trailing spaces included;
\* and a packet made here (digipeater output, ack, status reply, beacon),
\* written as text and parsed, gives the same text again
C15_TextRoundTrip ==
    /\ (converted.kind = "parsed" /\ converted.first.ok)
       => /\ converted.again.ok
          /\ converted.again.pkt.source = converted.first.pkt.source
          /\ converted.again.pkt.destination = converted.first.pkt.destination
          /\ converted.again.pkt.path = converted.first.pkt.path
          /\ converted.again.pkt.data_type = converted.first.pkt.data_type
          /\ converted.again.pkt.information = converted.first.pkt.information
    /\ converted.kind = "reparsed"
       => /\ converted.again.ok
          /\ PacketToString(converted.again.pkt) = converted.text

\* C15: a line with a used hop, a hop with an SSID and an information field
\* that ends in blanks went through parse, format and parse
C15_Witness ==
    /\ converted.kind = "parsed"
    /\ converted.first.ok /\ converted.again.ok
    /\ \E h \in 1..Len(converted.first.pkt.path) : converted.first.pkt.path[h].digipeated
    /\ \E h \in 1..Len(converted.first.pkt.path) : converted.first.pkt.path[h].ssid > 0
    /\ converted.first.pkt.information = Str("!x  ")

\* the token without its trailing marker, and its parts between dashes
TokenBody(tok) ==
    IF Len(tok) > 0 /\ tok[Len(tok)] = "*" THEN SubSeq(tok, 1, Len(tok) - 1) ELSE tok
TokenBase(tok) == Split(TokenBody(tok), "-")[1]
TokenSsid(tok) ==
    IF Len(Split(TokenBody(tok), "-")) > 1 THEN Split(TokenBody(tok), "-")[2] ELSE <<>>
AllDigits(text) == Len(text) > 0 /\ \A i \in 1..Len(text) : IsDigit(text[i])

\* C16: CallSign::parse returns None for every token whose SSID part is an
\* integer above 15, those above 255 included, and for every token with an
\* empty base call; of an accepted token the base call is upper-cased and a
\* trailing * is recorded as the used flag
C16_SsidRange ==
    converted.kind = "callsign"
    => LET tok == subject.token
       IN  /\ (AllDigits(TokenSsid(tok)) /\ DecVal(TokenSsid(tok)) > 15)
                 => ~converted.call.ok
           /\ Len(TokenBase(tok)) = 0 => ~converted.call.ok
           /\ converted.call.ok
                 => /\ converted.call.call = ToUpper(TokenBase(tok))
                    /\ converted.call.digipeated
                          <=> (Len(tok) > 0 /\ tok[Len(tok)] = "*")

(***************************************************************************)
(* Acknowledgements (message.rs)                                           *)
(***************************************************************************)

\* s with blanks after it up to nine characters
PaddedToNine(s) ==
    s \o [i \in 1..(IF Len(s) < 9 THEN 9 - Len(s) ELSE 0) |-> " "]

\* a Message addressed to mycall that is no ack or rej and carries {msgid
AckDue(p) ==
    /\ p.data_type = "Message"
    /\ StartsWith(p.information, <<":">> \o PaddedToNine(cfg.mycall) \o <<":">>)
    /\ ~StartsWith(Slice(p.information, 12, Len(p.information)), Str("ack"))
    /\ ~StartsWith(Slice(p.information, 12, Len(p.information)), Str("rej"))
    /\ ContainsChar(Slice(p.information, 12, Len(p.information)), "{")

\* the information field of the ack that answers p
AckText(p) ==
    LET rest == Slice(p.information, 12, Len(p.information))
    IN  <<":">> \o PaddedToNine(CallSignToString(p.source)) \o Str(":ack")
            \o Slice(rest, RFind(rest, "{") + 1, Len(rest))

\* C17: when the message handler takes from the message-feed a Message
\* addressed to mycall that is no ack or rej and carries {msgid, whether or
\* not that source and msgid are in received_messages, it goes on to send an
\* ack with the information field : + source padded to 9 + :ack + msgid,
\* and that send puts exactly this one Internal packet on the ingress queue
C17_AckEveryTime ==
    [][ /\ ( /\ mpc = "recv" /\ Len(msgFeed) > 0 /\ msgFeed' = Tail(msgFeed)
             /\ AckDue(Front(msgFeed).packet) )
           => /\ mpc' = "ack_send"
              /\ mcur'.ack.ok
              /\ mcur'.ack.pkt.information = AckText(Front(msgFeed).packet)
              /\ mcur'.from = Front(msgFeed).id
        /\ (mpc = "ack_send" /\ mpc' # "ack_send")
           => /\ Len(ingress') = Len(ingress) + 1
              /\ ingress'[Len(ingress')].packet = mcur.ack.pkt
              /\ ingress'[Len(ingress')].source = InternalTag
              /\ ingress'[Len(ingress')].from = mcur.from
              /\ \A i \in 1..Len(ingress) : ingress'[i] = ingress[i]
      ]_vars

\* C17: the same message came to the message-feed twice and the ack of
\* the second reception is on the ingress queue
C17_Witness ==
    \E j, k \in 1..Len(routeLog) :
        /\ j < k
        /\ "msg" \in routeLog[j].sinks /\ "msg" \in routeLog[k].sinks
        /\ AckDue(routeLog[k].rp.packet)
        /\ routeLog[j].rp.packet.source = routeLog[k].rp.packet.source
        /\ routeLog[j].rp.packet.information = routeLog[k].rp.packet.information
        /\ DOMAIN received # {}
        /\ \E i \in 1..Len(ingress) :
              /\ ingress[i].source = InternalTag
              /\ ingress[i].from = routeLog[k].rp.id
              /\ ingress[i].packet.information = AckText(routeLog[k].rp.packet)

(***************************************************************************)
(* The retry timer of the message handler (message.rs)                     *)
(***************************************************************************)

\* a retry that waits for nothing
RetryDueAlways(elapsed) == TRUE

\* retry_pending_messages: elapsed.num_seconds() >= 30
RetryDue(elapsed) == elapsed >= 30

\* retry_pending_messages: pending_msg.attempts >= 3
GiveUp(attempts) == attempts >= 3

PendingIds == {Str("1"), Str("2")}

\* the packet kept in the PendingMessage of an outbound message
PendingPacket(id) ==
    AprsPacketNew(HandlerSource(CfgB.mycall), CallSignNew(Str("APRS"), 0),
                  Str(":W1AW     :hello{") \o id)

\* a PendingMessage that was sent at time 0 and retried attempts times
PendingMessage(id, attempts) ==
    [packet |-> PendingPacket(id), attempts |-> attempts, last_attempt |-> 0]

PendingTables ==
    UNION {[ids -> 0..3] : ids \in SUBSET PendingIds}

\* the moments the 30 s interval of the retry timer fires at, as the time
\* from one tick to the next: on time, early and late by a second, and
\* late with the next tick close behind
RetryTimelines ==
    {<<30, 30, 30, 30>>, <<29, 1, 30, 29, 31, 30, 30>>, <<70, 5, 30, 30, 30>>}

\* the orders a HashMap may hand a set of keys out in
Orders(ids) ==
    {o \in [1..Cardinality(ids) -> ids] : \A i, j \in 1..Cardinality(ids) : o[i] = o[j] => i = j}

\* MessageHandler::run, the retry timer: interval.tick().await and
\* retry_pending_messages
RetryTick ==
    /\ advances < Len(inputs.steps)
    /\ LET t == now + inputs.steps[advances + 1]
           due == {id \in DOMAIN pending : RetryDue(t - pending[id].last_attempt)}
           to_remove == {id \in due : GiveUp(pending[id].attempts)}
           resend == due \ to_remove
       IN
       /\ Len(ingress) + Cardinality(resend) <= IngressCap
       /\ now' = t
       /\ advances' = advances + 1
       /\ pending' = [id \in DOMAIN pending \ to_remove |->
                         IF id \in resend
                         THEN [pending[id] EXCEPT !.attempts = @ + 1, !.last_attempt = t]
                         ELSE pending[id]]
       /\ \E o \in Orders(resend) :
             ingress' = ingress \o [i \in 1..Cardinality(resend) |->
                            Routed(pending[o[i]].packet, InternalTag, nextId + i - 1, 0)]
       /\ nextId' = nextId + Cardinality(resend)
    /\ UNCHANGED <<cfgVars, beaconVars, codecVars, offered, digiFeed, msgFeed, rfOut, isOut,
                   routerVars, digiVars, received, mpc, mcur, stats, routeLog, digiLog>>

InitRetry ==
    /\ cfg = CfgB
    /\ \E steps \in RetryTimelines :
          inputs = [serial |-> {}, is |-> {}, steps |-> steps, offers |-> <<>>]
    /\ now = 0
    /\ advances = 0
    /\ offered = 0
    /\ ingress = <<>>
    /\ digiFeed = <<>>
    /\ msgFeed = <<>>
    /\ rfOut = <<>>
    /\ isOut = <<>>
    /\ recent = <<>>
    /\ rpc = "recv"
    /\ rcur = NoPacket
    /\ rtick = RouterTickPeriod
    /\ digiRecent = EmptyMap
    /\ dpc = "recv"
    /\ dcur = NoPacket
    /\ dtick = DigiTickPeriod
    /\ received = EmptyMap
    /\ \E table \in PendingTables :
          pending = [id \in DOMAIN table |-> PendingMessage(id, table[id])]
    /\ mpc = "recv"
    /\ mcur = NoPacket
    /\ stats = [packets_rx |-> 0, packets_tx |-> 0, packets_digipeated |-> 0,
                packets_igate_rf_to_is |-> 0, packets_igate_is_to_rf |-> 0]
    /\ nextId = 1
    /\ routeLog = <<>>
    /\ digiLog = <<>>
    /\ InitCodec

NextRetry ==
    \/ RetryTick
    \/ RouterRecv

\* the timer fires for as long as the handler runs, and the router takes
\* what is on the ingress queue
SpecRetry ==
    InitRetry /\ [][NextRetry]_vars /\ WF_vars(RetryTick) /\ WF_vars(RouterRecv)

\* how many of the packets put on the ingress queue in this step are the
\* message id
RECURSIVE CountOf(_, _)
CountOf(q, packet) ==
    IF Len(q) = 0 THEN 0
    ELSE (IF Head(q).packet = packet THEN 1 ELSE 0) + CountOf(Tail(q), packet)

Resent(id) ==
    IF Len(ingress') > Len(ingress)
    THEN CountOf(SubSeq(ingress', Len(ingress) + 1, Len(ingress')), PendingPacket(id))
    ELSE 0

\* C18: the attempt counter of a pending message stays in 0..3; a step
\* retransmits a pending message at most once, only when 30 s or more have
\* passed since its last attempt, and counts the attempt, so that there are
\* at most 3 retransmissions; a message that is no longer pending stays out
\* of the table and is not retransmitted; and the table is empty in the end
C18_RetryBounded ==
    /\ [](\A id \in DOMAIN pending : pending[id].attempts \in 0..3)
    /\ [][\A id \in PendingIds :
             IF id \in DOMAIN pending
             THEN /\ Resent(id) \in {0, 1}
                  /\ Resent(id) = 1
                        => /\ now' - pending[id].last_attempt >= 30
                           /\ id \in DOMAIN pending'
                           /\ pending'[id].last_attempt = now'
                  /\ id \in DOMAIN pending'
                        => pending'[id].attempts = pending[id].attempts + Resent(id)
             ELSE /\ id \notin DOMAIN pending'
                  /\ Resent(id) = 0]_vars
    /\ <>[](DOMAIN pending = {})

\* C18: a message that was pending with no attempt made has been
\* retransmitted three times, the router has taken all three, and the
\* message is no longer pending
C18_Witness ==
    /\ DOMAIN pending = {}
    /\ Cardinality({i \in 1..Len(routeLog) :
                       routeLog[i].rp.packet = PendingPacket(Str("1"))}) = 3
    /\ \E i, j \in 1..Len(routeLog) :
          /\ routeLog[i].rp.packet = PendingPacket(Str("1"))
          /\ routeLog[j].rp.packet = PendingPacket(Str("1"))
          /\ routeLog[j].outcome = "duplicate"

(***************************************************************************)
(* The link tasks: the APRS-IS connection (network.rs) and a serial port   *)
(* (serial/mod.rs), with the failures their sockets and devices can show   *)
(***************************************************************************)

\* how many times a link fails
MaxFailures == 2

\* how many lines of one connection are kept
MaxWire == 4

\* run_aprs_is_connection: tokio::time::sleep(Duration::from_secs(30))
IsReconnectDelay == 30

\* a supervisor that hands the error of connect_and_run on, as ? would
SuperviseReturning(result) == IF result = "Err" THEN "ended" ELSE "sleep"

\* run_aprs_is_connection, the match on what connect_and_run returned:
\* both arms log and fall through to the sleep
Supervise(result) == "sleep"

\* connect_and_run returns, and the connection is dropped with it
ConnectAndRunEnds(result, cause) ==
    /\ isTask.failures < MaxFailures
    /\ isTask' = [pc |-> Supervise(result), failures |-> isTask.failures + 1,
                  result |-> cause, wire |-> <<>>]

\* connect_and_run: timeout(APRS_IS_TIMEOUT, TcpStream::connect(..)).await??
IsConnect ==
    /\ isTask.pc = "connect"
    /\ \E outcome \in {"connected", "timeout", "refused"} :
          IF outcome = "connected"
          THEN isTask' = [isTask EXCEPT !.pc = "banner"]
          ELSE ConnectAndRunEnds("Err", outcome)
    /\ UNCHANGED <<cfgVars, beaconVars, clockVars, ingress, digiFeed, msgFeed, rfOut, isOut,
                   routerVars, digiVars, msgVars, stats, nextId, routeLog, digiLog,
                   kissVars, subject, converted, serialTask>>

\* connect_and_run: the banner, reader.read_line(&mut line).await?
IsBanner ==
    /\ isTask.pc = "banner"
    /\ \E outcome \in {"line", "eof", "read_error"} :
          IF outcome = "read_error"
          THEN ConnectAndRunEnds("Err", "banner_read_error")
          ELSE isTask' = [isTask EXCEPT !.pc = "login",
                                        !.wire = Append(@, IF outcome = "line"
                                                           THEN "r:banner" ELSE "r:eof")]
    /\ UNCHANGED <<cfgVars, beaconVars, clockVars, ingress, digiFeed, msgFeed, rfOut, isOut,
                   routerVars, digiVars, msgVars, stats, nextId, routeLog, digiLog,
                   kissVars, subject, converted, serialTask>>

\* connect_and_run: writer.write_all(login.as_bytes()).await?
IsLogin ==
    /\ isTask.pc = "login"
    /\ \E outcome \in {"written", "write_error"} :
          IF outcome = "written"
          THEN isTask' = [isTask EXCEPT !.pc = "reply", !.wire = Append(@, "w:login")]
          ELSE ConnectAndRunEnds("Err", "login_write_error")
    /\ UNCHANGED <<cfgVars, beaconVars, clockVars, ingress, digiFeed, msgFeed, rfOut, isOut,
                   routerVars, digiVars, msgVars, stats, nextId, routeLog, digiLog,
                   kissVars, subject, converted, serialTask>>

\* connect_and_run: line.contains("verified") || line.contains("unverified")
LoginAccepted(reply) == reply \in {"verified", "unverified"}

\* connect_and_run: the reply to the login is read and tested
IsReply ==
    /\ isTask.pc = "reply"
    /\ \E outcome \in {"verified", "unverified", "rejected", "eof", "read_error"} :
          IF outcome = "read_error"
          THEN ConnectAndRunEnds("Err", "login_read_error")
          ELSE IF LoginAccepted(outcome)
          THEN isTask' = [isTask EXCEPT !.pc = "run", !.wire = Append(@, "r:" \o outcome)]
          ELSE /\ isTask.failures < MaxFailures
               /\ isTask' = [pc |-> Supervise("Err"), failures |-> isTask.failures + 1,
                             result |-> "login_" \o outcome,
                             wire |-> Append(isTask.wire, "r:" \o outcome)]
    /\ UNCHANGED <<cfgVars, beaconVars, clockVars, ingress, digiFeed, msgFeed, rfOut, isOut,
                   routerVars, digiVars, msgVars, stats, nextId, routeLog, digiLog,
                   kissVars, subject, converted, serialTask>>

\* connect_and_run, the loop: a packet of IS-egress is written (with
\* tx_enable), or the keepalive timer fires and # keepalive is written
IsWrite ==
    /\ isTask.pc = "run"
    /\ Len(isTask.wire) < MaxWire
    /\ \E what \in {"w:packet", "w:keepalive"} :
          /\ what = "w:packet" => cfg.aprs_is.tx_enable
          /\ isTask' = [isTask EXCEPT !.wire = Append(@, what)]
    /\ UNCHANGED <<cfgVars, beaconVars, clockVars, ingress, digiFeed, msgFeed, rfOut, isOut,
                   routerVars, digiVars, msgVars, stats, nextId, routeLog, digiLog,
                   kissVars, subject, converted, serialTask>>

\* connect_and_run, the loop: every break, and Ok(()) after it
IsRunEnd ==
    /\ isTask.pc = "run"
    /\ \E cause \in {"eof", "read_error", "write_error", "keepalive_error"} :
          /\ cause = "write_error" => cfg.aprs_is.tx_enable
          /\ ConnectAndRunEnds("Ok", cause)
    /\ UNCHANGED <<cfgVars, beaconVars, clockVars, ingress, digiFeed, msgFeed, rfOut, isOut,
                   routerVars, digiVars, msgVars, stats, nextId, routeLog, digiLog,
                   kissVars, subject, converted, serialTask>>

\* run_aprs_is_connection: the sleep, and the loop goes round
IsSleep ==
    /\ isTask.pc = "sleep"
    /\ now' = now + IsReconnectDelay
    /\ isTask' = [isTask EXCEPT !.pc = "connect", !.wire = <<>>]
    /\ UNCHANGED <<cfgVars, beaconVars, advances, offered, ingress, digiFeed, msgFeed, rfOut, isOut,
                   routerVars, digiVars, msgVars, stats, nextId, routeLog, digiLog,
                   kissVars, subject, converted, serialTask>>

\* connect_and_run, the read arm, while the connection is up
IsLine ==
    /\ isTask.pc = "run"
    /\ \E line \in inputs.is : AprsIsRx(line)

\* run_serial_port: SerialPort::open(..).await?
SerialOpen ==
    /\ serialTask.pc = "open"
    /\ \E outcome \in {"opened", "error"} :
          serialTask' = IF outcome = "opened"
                        THEN [serialTask EXCEPT !.pc = "run"]
                        ELSE [pc |-> "ended", failures |-> serialTask.failures + 1,
                              result |-> "open_error"]
    /\ UNCHANGED <<cfgVars, beaconVars, clockVars, ingress, digiFeed, msgFeed, rfOut, isOut,
                   routerVars, digiVars, msgVars, stats, nextId, routeLog, digiLog,
                   kissVars, subject, converted, isTask>>

\* run_kiss_protocol and run_tnc2_protocol, the read arm when port.read
\* fails: a timeout is passed over, any other error is returned
SerialReadError ==
    /\ serialTask.pc = "run"
    /\ serialTask.failures < MaxFailures
    /\ \E kind \in {"TimedOut", "Other"} :
          serialTask' = IF kind = "TimedOut"
                        THEN [serialTask EXCEPT !.failures = @ + 1,
                                                !.result = "read_timeout"]
                        ELSE [pc |-> "ended", failures |-> serialTask.failures + 1,
                              result |-> "read_error"]
    /\ UNCHANGED <<cfgVars, beaconVars, clockVars, ingress, digiFeed, msgFeed, rfOut, isOut,
                   routerVars, digiVars, msgVars, stats, nextId, routeLog, digiLog,
                   kissVars, subject, converted, isTask>>

\* run_kiss_protocol and run_tnc2_protocol, the transmit arm when
\* port.write_all fails: the error is logged and the loop goes on
SerialWriteError ==
    /\ serialTask.pc = "run"
    /\ serialTask.failures < MaxFailures
    /\ cfg.serial_ports[1].tx_enable
    /\ serialTask' = [serialTask EXCEPT !.failures = @ + 1, !.result = "write_error"]
    /\ UNCHANGED <<cfgVars, beaconVars, clockVars, ingress, digiFeed, msgFeed, rfOut, isOut,
                   routerVars, digiVars, msgVars, stats, nextId, routeLog, digiLog,
                   kissVars, subject, converted, isTask>>

\* run_tnc2_protocol, the read arm, while the task runs
SerialLine ==
    /\ serialTask.pc = "run"
    /\ \E line \in inputs.serial : SerialRx(1, line)

\* main: both tasks have just been spawned
InitLink ==
    /\ cfg = ScenarioA.cfg
    /\ inputs = [serial |-> {Str("TEST>APRS,WIDE1-1:>hi"), Str("TEST>APRS,RELAY:>hi")},
                 is |-> ScenarioA.is, steps |-> <<>>, offers |-> <<>>]
    /\ InitState
    /\ written = <<>>
    /\ stream = <<>>
    /\ read_buf = <<>>
    /\ codec = KissCodecNew
    /\ frames = <<>>
    /\ subject = [kind |-> "none"]
    /\ converted = [kind |-> "none"]
    /\ isTask = [pc |-> "connect", failures |-> 0, result |-> "none", wire |-> <<>>]
    /\ serialTask = [pc |-> "open", failures |-> 0, result |-> "none"]
    /\ InitNoBeacon

NextLink ==
    \/ IsConnect
    \/ IsBanner
    \/ IsLogin
    \/ IsReply
    \/ IsRunEnd
    \/ IsSleep
    \/ IsLine
    \/ SerialOpen
    \/ SerialReadError
    \/ SerialWriteError
    \/ SerialLine

\* the sleep of the supervisor ends
SpecLink == InitLink /\ [][NextLink]_vars /\ WF_vars(IsSleep)

\* C19: run_aprs_is_connection never returns; every end of connect_and_run,
\* whatever the cause, puts the task into its sleep; the sleep ends after
\* 30 s in a new connection attempt and in nothing else; and every sleep
\* does end in a new attempt
C19_ReconnectForEver ==
    /\ [](isTask.pc \in {"connect", "banner", "login", "reply", "run", "sleep"})
    /\ [][isTask'.failures # isTask.failures => isTask'.pc = "sleep"]_vars
    /\ [][(isTask.pc = "sleep" /\ isTask'.pc # "sleep")
             => (isTask'.pc = "connect" /\ now' = now + 30)]_vars
    /\ [](isTask.pc = "sleep" => <>(isTask.pc = "connect"))

\* C19: connect_and_run has ended twice, the second time out of its
\* loop, each end was followed by the sleep of 30 s, and the task is
\* connecting again
C19_Witness ==
    /\ isTask.pc = "connect"
    /\ isTask.failures = 2
    /\ isTask.result \in {"eof", "read_error", "write_error", "keepalive_error"}
    /\ now = 60

\* C20: the task of a serial port never ends: after a failed read or a
\* failed write the port is opened again
C20_SerialNeverEnds ==
    serialTask.result \in {"read_error", "write_error", "open_error"}
        => serialTask.pc \in {"open", "run"}

(***************************************************************************)
(* The beacon service (beacon.rs).  Latitude and longitude are in          *)
(* millionths of a degree, speed in knots, course in degrees, distances    *)
(* in metres.                                                              *)
(***************************************************************************)

\* how many check ticks the beacon service is followed for
MaxTicks == 6

Some(v) == [some |-> TRUE, v |-> v]
None == [some |-> FALSE]

\* a GpsPosition
GpsPosition(name, lat, lon, speed, course) ==
    [ok |-> TRUE, name |-> name, latitude |-> lat, longitude |-> lon,
     speed |-> speed, course |-> course]

\* what gps.get_position() returns on a tick: nothing, or one of
\*   a stand at 40.7128 N 74.0060 W, heading 5
\*   3 m north of it, without speed and course
\*   28 m further on, at 10 knots heading 45
\*   5.4 km away, at 70 knots heading 350
NoFix == [ok |-> FALSE]
GpsFixes ==
    {GpsPosition("A", 40712800, -74006000, Some(0), Some(5)),
     GpsPosition("A1", 40712830, -74006000, None, None),
     GpsPosition("B", 40713000, -74006200, Some(10), Some(45)),
     GpsPosition("C", 40758900, -73985100, Some(70), Some(350))}

\* calculate_distance (the haversine formula, earth radius 6371 km) for the
\* places of GpsFixes, in metres
CalculateDistance(pos1, pos2) ==
    LET pair == {pos1.name, pos2.name}
    IN  IF Cardinality(pair) = 1 THEN 0
        ELSE IF pair = {"A", "A1"} THEN 3
        ELSE IF pair = {"A", "B"} THEN 28
        ELSE IF pair = {"A1", "B"} THEN 25
        ELSE IF pair = {"A", "C"} THEN 5420
        ELSE IF pair = {"A1", "C"} THEN 5417
        ELSE 5405

\* an angle difference that is not folded onto the shorter arc
AngleDifferenceUnfolded(angle1, angle2) ==
    IF angle2 >= angle1 THEN angle2 - angle1 ELSE angle1 - angle2

\* angle_difference
AngleDifference(angle1, angle2) ==
    LET diff == IF angle2 >= angle1 THEN angle2 - angle1 ELSE angle1 - angle2
    IN  IF diff > 180 THEN 360 - diff ELSE diff

\* a maximum interval that is never reached
IntervalReachedNever(since, interval) == FALSE

\* should_beacon: time_since_last.num_seconds() >= self.config.interval
IntervalReached(since, interval) == since >= interval

\* a test of the distance that never finds the station standing still
StationaryNever(distance) == FALSE

\* should_beacon: distance < 0.01, in metres
Stationary(distance) == distance < 10

\* should_beacon: the decision, and the stationary counter it leaves
ShouldBeacon(config, svc, pos, t) ==
    LET since == t - svc.last_beacon_time
        sb == config.smart_beacon
        last == svc.last_position
        distance == CalculateDistance(last, pos)
        speed == IF pos.speed.some THEN pos.speed.v ELSE 0
        Decide(b, c) == [beacon |-> b, stationary_count |-> c]
        \* the check of the minimum interval that ends the function
        Rest(c) == IF since < sb.min_interval THEN Decide(FALSE, c) ELSE Decide(FALSE, c)
    IN  IF IntervalReached(since, config.interval) THEN Decide(TRUE, svc.stationary_count)
        ELSE IF ~sb.enabled THEN Rest(svc.stationary_count)
        ELSE IF ~last.ok THEN Decide(TRUE, svc.stationary_count)
        ELSE IF Stationary(distance)
        THEN IF svc.stationary_count + 1 > 3 /\ since < sb.stationary_interval
             THEN Decide(FALSE, svc.stationary_count + 1)
             ELSE Rest(svc.stationary_count + 1)
        ELSE IF /\ last.course.some /\ pos.course.some
                /\ AngleDifference(last.course.v, pos.course.v) > sb.turn_angle
                /\ speed > sb.turn_speed
        THEN Decide(TRUE, 0)
        ELSE IF speed > sb.high_speed
        THEN IF since >= sb.high_speed_interval THEN Decide(TRUE, 0) ELSE Rest(0)
        ELSE IF speed < sb.low_speed
        THEN IF since >= sb.low_speed_interval THEN Decide(TRUE, 0) ELSE Rest(0)
        ELSE Rest(0)

\* {:0w} of a natural number
RECURSIVE PadZero(_, _)
PadZero(text, w) == IF Len(text) >= w THEN text ELSE PadZero(<<"0">> \o text, w)

\* format!("{:05.2}", minutes) of the minutes in a fraction of a degree
\* given in millionths
FormatMinutes(frac) ==
    LET hundredths == (frac * 6 + 500) \div 1000
    IN  PadZero(FmtNat(hundredths \div 100), 2) \o <<".">>
            \o PadZero(FmtNat(hundredths % 100), 2)

\* format_latitude and format_longitude
FormatLatitude(lat) ==
    LET lat_abs == IF lat < 0 THEN 0 - lat ELSE lat
    IN  PadZero(FmtNat(lat_abs \div 1000000), 2) \o FormatMinutes(lat_abs % 1000000)
            \o (IF lat >= 0 THEN <<"N">> ELSE <<"S">>)

FormatLongitude(lon) ==
    LET lon_abs == IF lon < 0 THEN 0 - lon ELSE lon
    IN  PadZero(FmtNat(lon_abs \div 1000000), 3) \o FormatMinutes(lon_abs % 1000000)
            \o (IF lon >= 0 THEN <<"E">> ELSE <<"W">>)

\* format_position_packet, without timestamp and of a position without
\* altitude
FormatPositionPacket(config, pos) ==
    <<"!">> \o FormatLatitude(pos.latitude) \o Str(config.symbol_table)
        \o FormatLongitude(pos.longitude) \o Str(config.symbol)
        \o (IF pos.course.some /\ pos.speed.some /\ pos.speed.v > 1
            THEN PadZero(FmtNat(pos.course.v), 3) \o <<"/">>
                     \o PadZero(FmtNat(pos.speed.v), 3)
            ELSE <<>>)
        \o (IF Len(config.comment) > 0 THEN <<" ">> \o Str(config.comment) ELSE <<>>)

SmartBeaconCfg(enabled) ==
    [enabled |-> enabled, check_interval |-> 5, min_interval |-> 10,
     stationary_interval |-> 25, low_speed |-> 5, low_speed_interval |-> 15,
     high_speed |-> 60, high_speed_interval |-> 10, turn_angle |-> 20,
     turn_speed |-> 5]

BeaconCfg(interval, smart) ==
    [enabled |-> TRUE, callsign |-> "N0CALL-9", interval |-> interval,
     path |-> "WIDE1-1,WIDE2-2", symbol_table |-> "/", symbol |-> ">",
     comment |-> "", timestamp |-> FALSE, smart_beacon |-> SmartBeaconCfg(smart)]

\* a station with a beacon: smart beaconing with a maximum interval of
\* 25 s, and plain beaconing every 10 s
CfgSmart == [mycall |-> CfgD.mycall, serial_ports |-> CfgD.serial_ports,
             aprs_is |-> CfgD.aprs_is, digipeater |-> CfgD.digipeater,
             filters |-> CfgD.filters, beacon |-> BeaconCfg(25, TRUE)]
CfgPlain == [CfgSmart EXCEPT !.beacon = BeaconCfg(10, FALSE)]

\* BeaconService::run, one turn of the loop: check_interval.tick(), the
\* position of the GPS tracker, should_beacon and send_beacon
BeaconTick ==
    /\ beacon.ticks < MaxTicks
    /\ \E fix \in GpsFixes \cup {NoFix} :
          LET t == beacon.ticks * cfg.beacon.smart_beacon.check_interval
              d == IF fix.ok THEN ShouldBeacon(cfg.beacon, beacon, fix, t)
                   ELSE [beacon |-> FALSE, stationary_count |-> beacon.stationary_count]
          IN  /\ d.beacon => Len(ingress) < IngressCap
              /\ now' = t
              /\ beacon' = [last_position |-> IF d.beacon THEN fix ELSE beacon.last_position,
                            last_beacon_time |-> IF d.beacon THEN t
                                                 ELSE beacon.last_beacon_time,
                            stationary_count |-> d.stationary_count,
                            ticks |-> beacon.ticks + 1]
              /\ ingress' = IF d.beacon
                            THEN Enqueue(ingress,
                                   Routed(SendBeaconPacket(cfg.beacon.callsign,
                                              cfg.beacon.path,
                                              FormatPositionPacket(cfg.beacon, fix)),
                                          InternalTag, nextId, 0))
                            ELSE ingress
              /\ nextId' = IF d.beacon THEN nextId + 1 ELSE nextId
              /\ lastTick' = [kind |-> "tick", t |-> t, fix |-> fix, before |-> beacon,
                              decided |-> d.beacon]
    /\ UNCHANGED <<cfgVars, codecVars, advances, offered, digiFeed, msgFeed, rfOut, isOut,
                   routerVars, digiVars, msgVars, stats, routeLog, digiLog>>

InitBeacon ==
    /\ cfg \in {CfgSmart, CfgPlain}
    /\ inputs = [serial |-> {}, is |-> {}, steps |-> <<>>, offers |-> <<>>]
    /\ InitState
    /\ written = <<>>
    /\ stream = <<>>
    /\ read_buf = <<>>
    /\ codec = KissCodecNew
    /\ frames = <<>>
    /\ subject = [kind |-> "none"]
    /\ converted = [kind |-> "none"]
    /\ InitTasks
    /\ InitNoBeacon

NextBeacon ==
    \/ BeaconTick
    \/ RouterRecv

SpecBeacon == InitBeacon /\ [][NextBeacon]_vars

\* the time since the last beacon at the last tick
SinceLast == lastTick.t - lastTick.before.last_beacon_time

\* C21: at a tick with a position and with the time since the last beacon
\* at or above the interval the decision is to beacon, whatever the smart
\* beacon setting, the motion and the stationary counter; with smart beacon
\* disabled the decision is to beacon at no other tick
C21_MaxInterval ==
    (lastTick.kind = "tick" /\ lastTick.fix.ok)
        => /\ SinceLast >= cfg.beacon.interval => lastTick.decided
           /\ ~cfg.beacon.smart_beacon.enabled
                 => (lastTick.decided <=> SinceLast >= cfg.beacon.interval)

\* C21: with smart beacon enabled, standing still for more than three
\* ticks, the interval has passed and the tick decided to beacon
C21_Witness ==
    /\ lastTick.kind = "tick" /\ lastTick.fix.ok
    /\ cfg.beacon.smart_beacon.enabled
    /\ lastTick.before.stationary_count > 3
    /\ SinceLast >= cfg.beacon.interval
    /\ lastTick.decided

\* the angle between two courses along the shorter arc
ShorterArc(a, b) ==
    IF (a - b) % 360 <= (b - a) % 360 THEN (a - b) % 360 ELSE (b - a) % 360

\* at the last tick smart beaconing was on, a beacon had been sent before
\* and the position was 0.01 km or more from the beaconed one
MovedSinceBeacon ==
    /\ lastTick.kind = "tick" /\ lastTick.fix.ok
    /\ cfg.beacon.smart_beacon.enabled
    /\ lastTick.before.last_position.ok
    /\ CalculateDistance(lastTick.before.last_position, lastTick.fix) >= 10

\* the speed of the last tick's position, 0 when it carries none
CurrentSpeed == IF lastTick.fix.speed.some THEN lastTick.fix.speed.v ELSE 0

\* both positions carry a course, the courses differ by more than
\* turn_angle and the speed is above turn_speed
Turned ==
    /\ lastTick.before.last_position.course.some
    /\ lastTick.fix.course.some
    /\ ShorterArc(lastTick.before.last_position.course.v, lastTick.fix.course.v)
          > cfg.beacon.smart_beacon.turn_angle
    /\ CurrentSpeed > cfg.beacon.smart_beacon.turn_speed

\* the maximum interval or one of the speed rules asks for a beacon
OtherRuleFires ==
    \/ SinceLast >= cfg.beacon.interval
    \/ /\ CurrentSpeed > cfg.beacon.smart_beacon.high_speed
       /\ SinceLast >= cfg.beacon.smart_beacon.high_speed_interval
    \/ /\ CurrentSpeed < cfg.beacon.smart_beacon.low_speed
       /\ SinceLast >= cfg.beacon.smart_beacon.low_speed_interval

C29_MinInterval ==
    ( /\ lastTick.kind = "tick" /\ lastTick.fix.ok
      /\ lastTick.before.last_position.ok
      /\ SinceLast < cfg.beacon.smart_beacon.min_interval
      /\ SinceLast < cfg.beacon.interval )
        => ~lastTick.decided

(***************************************************************************)
(* The filter (filter.rs)                                                  *)
(***************************************************************************)

\* the rules of the list whose pattern matches the text of the packet
MatchingRules ==
    {i \in 1..Len(subject.filters) :
        RegexIsMatch(subject.filters[i].pattern, PacketToString(subject.packet))}

\* C23: should_pass gives the action of the first rule, in the order of
\* the list, whose pattern matches the text of the packet, true for pass
\* and false for drop, whatever later rules say; with no matching rule the
\* packet passes
C23_FirstMatchDecides ==
    converted.kind = "filtered"
        => IF MatchingRules = {} THEN converted.pass
           ELSE LET first == CHOOSE i \in MatchingRules : \A j \in MatchingRules : i <= j
                IN  converted.pass <=> subject.filters[first].action = "pass"

\* C23: a packet that a pass rule matches first and a drop rule after it
\* was passed
C23_Witness ==
    /\ converted.kind = "filtered"
    /\ converted.pass
    /\ \E i, j \in MatchingRules :
          /\ i < j /\ \A k \in MatchingRules : i <= k
          /\ subject.filters[i].action = "pass"
          /\ subject.filters[j].action = "drop"

(***************************************************************************)
(* The KISS decoder on the bytes of a TNC (serial/kiss.rs)                 *)
(***************************************************************************)

\* the bytes between two FENDs with FESC TFEND and FESC TFESC put back;
\* ok is FALSE when FESC is followed by anything else, or by nothing
RECURSIVE Unescaped(_)
Unescaped(body) ==
    IF Len(body) = 0 THEN [ok |-> TRUE, bytes |-> <<>>]
    ELSE IF Head(body) = KISS_FESC
    THEN IF Len(body) >= 2 /\ body[2] \in {KISS_TFEND, KISS_TFESC}
         THEN LET r == Unescaped(SubSeq(body, 3, Len(body)))
              IN  [ok |-> r.ok,
                   bytes |-> <<IF body[2] = KISS_TFEND THEN KISS_FEND ELSE KISS_FESC>>
                                 \o r.bytes]
         ELSE [ok |-> FALSE, bytes |-> <<>>]
    ELSE LET r == Unescaped(Tail(body))
         IN  [ok |-> r.ok, bytes |-> <<Head(body)>> \o r.bytes]

\* a frame whose escapes are all valid
WellEscaped(body) == Unescaped(body).ok

\* a frame to surface: a data frame of port 0 with a payload
WellFormed(body) ==
    /\ WellEscaped(body)
    /\ Len(Unescaped(body).bytes) > 1
    /\ Unescaped(body).bytes[1] % 16 = 0
    /\ Unescaped(body).bytes[1] \div 16 = 0

\* the payloads of the frames to surface, in the order of the stream
RECURSIVE Payloads(_)
Payloads(bodies) ==
    IF Len(bodies) = 0 THEN <<>>
    ELSE (IF WellFormed(Head(bodies)) THEN <<Tail(Unescaped(Head(bodies)).bytes)>> ELSE <<>>)
             \o Payloads(Tail(bodies))

\* the whole stream of the TNC has been read and decoded
StreamDecoded ==
    subject.kind = "raw" /\ converted.kind = "sent" /\ stream = <<>>

\* C24: of a stream of frames with valid escapes the decoder surfaces the
\* payloads of exactly the data frames of port 0 that have a payload, in
\* order: a frame of another command or port, or one without a payload,
\* gives nothing and does not cost the next well-formed frame
C24_OnlyDataFrames ==
    (StreamDecoded /\ \A i \in 1..Len(subject.bodies) : WellEscaped(subject.bodies[i]))
        => frames = Payloads(subject.bodies)

\* C25: of a stream with a frame in which FESC is followed by a byte that
\* is neither TFEND nor TFESC, nothing of that frame is surfaced, and every
\* well-formed frame of the stream is, the one after the aborted frame
\* included; the decoder is not left waiting for the byte after FESC
C25_AbortedFrame ==
    (StreamDecoded /\ \E i \in 1..Len(subject.bodies) : ~WellEscaped(subject.bodies[i]))
        => /\ frames = Payloads(subject.bodies)
           /\ ~codec.escaped

(***************************************************************************)
(* Path hops in parse_packet (aprs/parser.rs)                              *)
(***************************************************************************)

\* the header of a line, and what stands on both sides of its > signs
HeaderOf(line) ==
    LET input == TrimStart(line)
    IN  Trim(Slice(input, 1, Find(input, ":") - 1))
HeaderParts(line) == Split(HeaderOf(line), ">")
\* the tokens between the commas after the destination
HopTokensOf(line) == Tail(Split(HeaderParts(line)[2], ","))

\* a hop token with a base call and no SSID above 15
Parseable(tok) ==
    /\ Len(tok) > 0
    /\ Len(TokenBase(tok)) > 0
    /\ ~(AllDigits(TokenSsid(tok)) /\ DecVal(TokenSsid(tok)) > 15)

RECURSIVE ParseableOnly(_)
ParseableOnly(toks) ==
    IF Len(toks) = 0 THEN <<>>
    ELSE (IF Parseable(Head(toks)) THEN <<Head(toks)>> ELSE <<>>)
             \o ParseableOnly(Tail(toks))

\* a line parse_packet may refuse: empty, without a colon, with a header
\* that > does not split in two, or with a source or a destination that
\* CallSign::parse refuses
Refusable(line) ==
    \/ Len(TrimStart(line)) = 0
    \/ Find(TrimStart(line), ":") = 0
    \/ Len(HeaderParts(line)) # 2
    \/ ~CallSignParse(HeaderParts(line)[1]).ok
    \/ ~CallSignParse(Split(HeaderParts(line)[2], ",")[1]).ok

\* C26: parse_packet refuses a line only when it is empty, has no colon,
\* has a header that > does not split into exactly two parts, or has an
\* invalid source or destination; of every other line the result is Ok and
\* its path is the parseable hop tokens, in order: every hop with an empty
\* token, an empty base call or an SSID above 15 is left out
C26_HopsNeverReject ==
    converted.kind = "parsed"
        => /\ converted.first.ok <=> ~Refusable(subject.line)
           /\ converted.first.ok
                 => LET kept == ParseableOnly(HopTokensOf(subject.line))
                    IN  /\ Len(converted.first.pkt.path) = Len(kept)
                        /\ \A h \in 1..Len(kept) :
                              converted.first.pkt.path[h] = CallSignParse(kept[h])

(***************************************************************************)
(* The queues under load (router.rs, digipeater.rs, message.rs): a TNC     *)
(* that delivers packets faster than the tasks take them                   *)
(***************************************************************************)

\* enough packets to fill the ingress queue and a feed while the router
\* and a consumer hold one packet each
MaxBurst == IngressCap + DigiFeedCap + MsgFeedCap + 2

\* the station of CfgB hearing a query addressed to it and two status
\* packets, all three with the alias RELAY in the path
ScenarioLoad ==
    Scenario(CfgB,
             {Str("W1AW>N0CALL,RELAY::N0CALL   :?APRST{1"),
              Str("TEST>APRS,RELAY:>hi"), Str("TEST>APRS,RELAY:>yo")},
             {},
             <<>>)

InitLoad == InitOf({ScenarioLoad})

NextLoad ==
    \/ \E line \in inputs.serial : SerialPush(1, line, MaxBurst)
    \/ RouterRecv
    \/ RouterDigiSend
    \/ RouterMsgSend
    \/ DigiRecv
    \/ DigiSend
    \/ MsgRecv
    \/ MsgAckSend
    \/ MsgStatusSend

SpecLoad == InitLoad /\ [][NextLoad]_vars

\* the router waits in send().await on the full digipeater-feed
RouterWaitsOnDigiFeed ==
    rpc = "digi_send" /\ cfg.digipeater.enabled /\ Len(digiFeed) >= DigiFeedCap
\* the router waits in send().await on the full message-feed
RouterWaitsOnMsgFeed ==
    /\ rpc = "msg_send"
    /\ rcur.packet.destination.call = cfg.mycall
    /\ Len(msgFeed) >= MsgFeedCap
\* a consumer waits in send().await on the full ingress queue
DigiWaitsOnIngress == dpc = "send" /\ Len(ingress) >= IngressCap
MsgWaitsOnIngress ==
    mpc \in {"ack_send", "status_send"} /\ Len(ingress) >= IngressCap

\* C27: in no reachable state does the router wait on a full
\* digipeater-feed or message-feed while the consumer of that feed waits
\* on the full ingress queue
C27_NoCircularWait ==
    /\ ~(RouterWaitsOnDigiFeed /\ DigiWaitsOnIngress)
    /\ ~(RouterWaitsOnMsgFeed /\ MsgWaitsOnIngress)

(***************************************************************************)
(* RFONLY and NOGATE through the digipeater (router.rs, digipeater.rs)     *)
(***************************************************************************)

\* C28: a packet from a serial port with RFONLY or NOGATE in its
\* information field never reaches IS-egress, neither itself nor the copy
\* the digipeater makes of it and sends back as Internal
C28_RfOnlyNeverToIs ==
    \A i \in 1..Len(routeLog) :
        LET e == routeLog[i]
        IN  ( /\ e.rp.source.kind = "SerialPort"
              /\ \/ Contains(e.rp.packet.information, Str("RFONLY"))
                 \/ Contains(e.rp.packet.information, Str("NOGATE")) )
            => /\ ~PublishedToIs(e.rp.id)
               /\ \A k \in 1..Len(isOut) : isOut[k].from # e.rp.id

(***************************************************************************)
(* Acks and rejs for our own messages (message.rs): the handler with       *)
(* messages pending, the retry timer running, and a station that answers   *)
(***************************************************************************)

\* how many lines the station sends
MaxAckPush == 2

\* an ack for message 1, a rej for message 2, and a message of the
\* station's own that asks for an ack
AckLines ==
    {Str("W1AW>N0CALL::N0CALL   :ack1"), Str("W1AW>N0CALL::N0CALL   :rej2"),
     Str("W1AW>N0CALL::N0CALL   :hello{7")}

\* both messages pending, the first one retried once already
AckTables ==
    {[id \in PendingIds |-> IF id = Str("1") THEN 1 ELSE 0]}

InitAck ==
    /\ cfg = CfgB
    /\ inputs = [serial |-> AckLines, is |-> {}, steps |-> <<30, 30>>, offers |-> <<>>]
    /\ now = 0
    /\ advances = 0
    /\ offered = 0
    /\ ingress = <<>>
    /\ digiFeed = <<>>
    /\ msgFeed = <<>>
    /\ rfOut = <<>>
    /\ isOut = <<>>
    /\ recent = <<>>
    /\ rpc = "recv"
    /\ rcur = NoPacket
    /\ rtick = RouterTickPeriod
    /\ digiRecent = EmptyMap
    /\ dpc = "recv"
    /\ dcur = NoPacket
    /\ dtick = DigiTickPeriod
    /\ received = EmptyMap
    /\ \E table \in AckTables :
          pending = [id \in DOMAIN table |-> PendingMessage(id, table[id])]
    /\ mpc = "recv"
    /\ mcur = NoPacket
    /\ stats = [packets_rx |-> 0, packets_tx |-> 0, packets_digipeated |-> 0,
                packets_igate_rf_to_is |-> 0, packets_igate_is_to_rf |-> 0]
    /\ nextId = 1
    /\ routeLog = <<>>
    /\ digiLog = <<>>
    /\ InitCodec

NextAck ==
    \/ \E line \in inputs.serial : SerialPush(1, line, MaxAckPush)
    \/ RouterRecv
    \/ RouterDigiSend
    \/ RouterMsgSend
    \/ DigiRecv
    \/ MsgRecv
    \/ MsgAckSend
    \/ RetryTick

SpecAck == InitAck /\ [][NextAck]_vars

\* the handler takes a message addressed to mycall whose text begins with
\* ack or rej; AckOrRejId is what follows the three letters
TakesAckOrRej ==
    /\ mpc = "recv"
    /\ Len(msgFeed) > 0
    /\ msgFeed' = Tail(msgFeed)
    /\ Front(msgFeed).packet.data_type = "Message"
    /\ \/ StartsWith(Front(msgFeed).packet.information,
                     <<":">> \o PaddedToNine(cfg.mycall) \o Str(":ack"))
       \/ StartsWith(Front(msgFeed).packet.information,
                     <<":">> \o PaddedToNine(cfg.mycall) \o Str(":rej"))
AckOrRejId ==
    SubSeq(Front(msgFeed).packet.information, 15,
           Len(Front(msgFeed).packet.information))

\* C30: when the handler takes a message addressed to mycall whose text is
\* ack or rej followed by a msgid, the pending message with that msgid is
\* removed, every other pending message stays as it is, and the handler
\* sends nothing in reply; a message that is not pending is never
\* retransmitted and never pending again
C30_AckRemovesPending ==
    /\ [][TakesAckOrRej
             => /\ DOMAIN pending' = DOMAIN pending \ {AckOrRejId}
                /\ \A id \in DOMAIN pending' : pending'[id] = pending[id]
                /\ mpc' = "recv"
                /\ ingress' = ingress]_vars
    /\ [][\A id \in PendingIds :
             id \notin DOMAIN pending
                => (id \notin DOMAIN pending' /\ Resent(id) = 0)]_vars

\* C30: message 1 was acked before the retry timer fired: it is gone from
\* the table and was never retransmitted, while message 2 is still
\* pending and was retransmitted
C30_Witness ==
    /\ now = 30
    /\ Str("1") \notin DOMAIN pending
    /\ Str("2") \in DOMAIN pending
    /\ pending[Str("2")].last_attempt = 30
    /\ \A i \in 1..Len(routeLog) : routeLog[i].rp.packet # PendingPacket(Str("1"))
    /\ \A i \in 1..Len(ingress) : ingress[i].packet # PendingPacket(Str("1"))
    /\ \E i \in 1..Len(routeLog) :
          /\ routeLog[i].rp.packet.information = Str(":N0CALL   :ack1")
          /\ "msg" \in routeLog[i].sinks

(***************************************************************************)
(* The APRS-IS login (network.rs): isTask.wire is what was read from and   *)
(* written to the connection, in order                                     *)
(***************************************************************************)

\* the APRS-IS task on its own, with what it writes while it runs
InitLogin ==
    /\ cfg = ScenarioA.cfg
    /\ inputs = [serial |-> {}, is |-> ScenarioA.is \cup {Str("W1AW>APRS:>yo")},
                 steps |-> <<>>, offers |-> <<>>]
    /\ InitState
    /\ written = <<>>
    /\ stream = <<>>
    /\ read_buf = <<>>
    /\ codec = KissCodecNew
    /\ frames = <<>>
    /\ subject = [kind |-> "none"]
    /\ converted = [kind |-> "none"]
    /\ isTask = [pc |-> "connect", failures |-> 0, result |-> "none", wire |-> <<>>]
    /\ serialTask = [pc |-> "run", failures |-> 0, result |-> "none"]
    /\ InitNoBeacon

NextLogin ==
    \/ IsConnect
    \/ IsBanner
    \/ IsLogin
    \/ IsReply
    \/ IsWrite
    \/ IsLine
    \/ IsRunEnd
    \/ IsSleep

SpecLogin == InitLogin /\ [][NextLogin]_vars

\* the lines written on the connection
WrittenLines == SelectSeq(isTask.wire, LAMBDA e : e \in {"w:login", "w:packet", "w:keepalive"})
\* the reply to the login has been read and accepts it
ReplyRead ==
    \E i \in 1..Len(isTask.wire) : isTask.wire[i] \in {"r:verified", "r:unverified"}

\* C31: on every connection the first line written is the login, and it is
\* written only after the banner line has been read; no packet and no
\* keepalive is written, and no line is handed to the router, before the
\* reply with verified or unverified has been read; and any other reply
\* ends the attempt with an error
C31_LoginFirst ==
    /\ [](WrittenLines # <<>> => /\ WrittenLines[1] = "w:login"
                                 /\ isTask.wire[1] = "r:banner")
    /\ [](\A i \in 1..Len(isTask.wire) :
             isTask.wire[i] \in {"w:packet", "w:keepalive"}
                => \E j \in 1..(i - 1) : isTask.wire[j] \in {"r:verified", "r:unverified"})
    /\ [][Len(ingress') > Len(ingress) /\ ingress'[Len(ingress')].source.kind = "AprsIs"
             => ReplyRead]_vars
    /\ [](\A i \in 1..Len(isTask.wire) :
             isTask.wire[i] \in {"r:rejected", "r:eof"} /\ i > 1
                => /\ isTask.pc = "sleep"
                   /\ isTask.result \in {"login_rejected", "login_eof"})

\* at the last tick smart beaconing was on, a position was read and a beacon
\* had been sent from a position before
SmartTick ==
    /\ lastTick.kind = "tick" /\ lastTick.fix.ok
    /\ cfg.beacon.smart_beacon.enabled
    /\ lastTick.before.last_position.ok

\* the position of the last tick is less than 0.01 km from the beaconed one
StoodStill == CalculateDistance(lastTick.before.last_position, lastTick.fix) < 10

\* what the claim says of the stationary counter at the last tick, and of
\* the decision when the counter exceeds 3
CounterRule ==
    /\ StoodStill => beacon.stationary_count = lastTick.before.stationary_count + 1
    /\ ~StoodStill => beacon.stationary_count = 0
    /\ (/\ beacon.stationary_count > 3
        /\ SinceLast < cfg.beacon.smart_beacon.stationary_interval
        /\ SinceLast < cfg.beacon.interval) => ~lastTick.decided

\* C32: with smart beacon enabled and a previous beaconed position, on each
\* tick the stationary counter increases by one when the position is less
\* than 0.01 km from the beaconed one and is reset to 0 when it is further
\* away; a counter above 3 with the time since the last beacon below
\* stationary_interval and below the interval suppresses the beacon
C32_StationaryCounter == SmartTick => CounterRule

\* C32: the same at the ticks where the time since the last beacon is below
\* the interval, the only ticks at which should_beacon reaches the counter
C32_StationaryCounterBelowInterval ==
    (SmartTick /\ SinceLast < cfg.beacon.interval) => CounterRule

\* C32: a tick that found the station standing still for the fourth time
\* in a row, before stationary_interval had passed, and suppressed the beacon
C32_Witness ==
    /\ SmartTick /\ StoodStill
    /\ SinceLast < cfg.beacon.interval
    /\ SinceLast < cfg.beacon.smart_beacon.stationary_interval
    /\ lastTick.before.stationary_count = 3
    /\ beacon.stationary_count = 4
    /\ ~lastTick.decided

(***************************************************************************)
(* The router's dedup list at its limit (router.rs)                        *)
(***************************************************************************)

\* a receive-only I-gate hearing two packets on RF and one on APRS-IS, the
\* first housekeeping tick falling due after the first step of the clock
ScenarioRecent ==
    Scenario(CfgC,
             {Str("W1AW>APRS:>hi"), Str("W1AW>APRS:>SPAM")},
             {Str("W1AW>APRS,TCPIP*:>hi")},
             <<60, 250>>)

\* the dedup list of a router that stored RecentLimit - 1 packets in the
\* 290 s before the run, oldest first, none of them of age 300 s
BusyRecent ==
    [i \in 1..(RecentLimit - 1) |->
        [hash |-> CalculatePacketHash(<<"s">> \o FmtNat(i)),
         t |-> 0 - (((RecentLimit - i) * 29) \div 100) - 1]]

InitRecent ==
    /\ cfg = ScenarioRecent.cfg
    /\ inputs = [serial |-> ScenarioRecent.serial, is |-> ScenarioRecent.is,
                 steps |-> ScenarioRecent.steps, offers |-> <<>>]
    /\ now = 0
    /\ advances = 0
    /\ offered = 0
    /\ ingress = <<>>
    /\ digiFeed = <<>>
    /\ msgFeed = <<>>
    /\ rfOut = <<>>
    /\ isOut = <<>>
    /\ recent = BusyRecent
    /\ rpc = "recv"
    /\ rcur = NoPacket
    /\ rtick = RouterTickPeriod
    /\ digiRecent = EmptyMap
    /\ dpc = "recv"
    /\ dcur = NoPacket
    /\ dtick = DigiTickPeriod
    /\ received = EmptyMap
    /\ pending = EmptyMap
    /\ mpc = "recv"
    /\ mcur = NoPacket
    /\ stats = [packets_rx |-> 0, packets_tx |-> 0, packets_digipeated |-> 0,
                packets_igate_rf_to_is |-> 0, packets_igate_is_to_rf |-> 0]
    /\ nextId = 1
    /\ routeLog = <<>>
    /\ digiLog = <<>>
    /\ InitCodec

NextRecent ==
    \/ \E line \in inputs.serial : SerialRx(1, line)
    \/ \E line \in inputs.is : AprsIsRx(line)
    \/ RouterRecv
    \/ RouterDigiSend
    \/ RouterMsgSend
    \/ RouterTick
    \/ Advance

SpecRecent == InitRecent /\ [][NextRecent]_vars

\* the step is a call of store_packet_hash: the list changes outside the
\* housekeeping tick
StoreStep == recent' # recent /\ rtick' = rtick

\* the list after the step is the list before it with one entry pushed and
\* its n oldest entries removed
CutBy(n) ==
    /\ Len(recent') = Len(recent) + 1 - n
    /\ \A i \in 1..(Len(recent') - 1) : recent'[i] = recent[i + n]

\* the entries of the list are in the order of their age, oldest first
OldestFirst ==
    \A i \in 1..(Len(recent) - 1) : recent[i].t <= recent[i + 1].t

\* C33: after every store_packet_hash the dedup list holds at most 1000
\* entries; an overflow removes the 100 oldest entries and nothing else; and
\* after every housekeeping tick no entry older than 300 s is left
C33_DedupListBounded ==
    /\ [](OldestFirst /\ Len(recent) <= RecentLimit)
    /\ [][StoreStep => IF Len(recent) + 1 > RecentLimit
                       THEN CutBy(RecentDrain) ELSE CutBy(0)]_vars
    /\ [][rtick' # rtick
              => \A i \in 1..Len(recent') : now' - recent'[i].t <= RouterMaxAge]_vars

\* C33: two packets stored at time 0 made the list overflow, and the
\* housekeeping tick after it removed entries that had reached 300 s
C33_Witness ==
    /\ rtick > RouterTickPeriod
    /\ Len(recent) >= 2
    /\ Len(recent) < RecentLimit + 1 - RecentDrain
    /\ recent[Len(recent)].t = 0
    /\ recent[Len(recent) - 1].t = 0
    /\ recent[1].t < 0

\* the whole stream the port delivers in the run
WholeStream ==
    IF subject.kind = "raw"
    THEN (IF converted.kind = "sent" THEN RawStream(subject.bodies, subject.shared)
          ELSE <<>>)
    ELSE written

\* the bytes of it that port.read has returned so far
BytesRead == SubSeq(WholeStream, 1, Len(WholeStream) - Len(stream))

\* a fresh decoder fed the bytes read so far in one piece
InOnePiece == KissDecodeLoop(KissCodecNew, BytesRead, <<>>)

\* C34: however the reads split the stream, the split between FESC and the
\* byte after it included, the frames returned so far and the state of the
\* decoder are those of a fresh decoder fed the same bytes in one piece
C34_SplitAnywhere ==
    /\ frames = InOnePiece.frames
    /\ codec = InOnePiece.codec
    /\ read_buf = InOnePiece.src

\* C34: the first frame has been returned, and a read ended between the
\* FESC of the second frame and the TFEND after it
C34_Witness ==
    /\ frames # <<>>
    /\ codec.in_frame /\ codec.escaped
    /\ stream # <<>> /\ Head(stream) = KISS_TFEND

\* the source tags of the packets that wait in a feed
FeedTags(feed) == {feed[i].source.kind : i \in 1..Len(feed)}

\* C35: no packet tagged AprsIs is published to IS-egress; no packet tagged
\* AprsIs or Internal is enqueued to the digipeater-feed or the
\* message-feed; so every packet the digipeater takes came in through a
\* serial port, its own emissions, tagged Internal, never among them
C35_NoLoopThroughRouter ==
    /\ \A i \in 1..Len(isOut) : isOut[i].source.kind # "AprsIs"
    /\ \A i \in 1..Len(routeLog) :
          routeLog[i].rp.source.kind \in {"AprsIs", "Internal"}
              => /\ routeLog[i].sinks \cap {"digi", "msg"} = {}
                 /\ routeLog[i].rp.source.kind = "AprsIs" => "is" \notin routeLog[i].sinks
    /\ FeedTags(digiFeed) \cup FeedTags(msgFeed) \subseteq {"SerialPort"}
    /\ \A i \in 1..Len(digiLog) : digiLog[i].rp.source.kind = "SerialPort"

\* C35: the router has routed a packet from APRS-IS and a packet the
\* digipeater emitted
C35_Witness ==
    /\ \E i \in 1..Len(routeLog) :
          /\ routeLog[i].rp.source.kind = "AprsIs"
          /\ routeLog[i].outcome = "routed"
    /\ \E i \in 1..Len(routeLog), j \in 1..Len(digiLog) :
          /\ routeLog[i].rp.source.kind = "Internal"
          /\ routeLog[i].outcome = "routed"
          /\ digiLog[j].out.ok
          /\ routeLog[i].rp.from = digiLog[j].rp.id

\* the packet of an entry of the digipeater's log was re-injected as the
\* claim describes it: same source, destination and information field, one
\* used hop more, and the hops before and after the current hop kept
ReinjectedAsClaimed(e) ==
    LET path == e.rp.packet.path
        new_path == e.out.pkt.path
        k == FirstUnused(path)
        after == Len(path) - k
    IN  /\ e.out.pkt.source = e.rp.packet.source
        /\ e.out.pkt.destination = e.rp.packet.destination
        /\ e.out.pkt.information = e.rp.packet.information
        /\ UsedCount(new_path) = UsedCount(path) + 1
        /\ k # 0
        /\ Len(new_path) >= Len(path)
        /\ SubSeq(new_path, 1, k - 1) = SubSeq(path, 1, k - 1)
        /\ SubSeq(new_path, Len(new_path) - after + 1, Len(new_path))
              = SubSeq(path, k + 1, Len(path))

\* C36: every packet the digipeater re-injects is tagged Internal, has the
\* source, destination and information field of the packet it was made
\* from, one used hop more, and every original hop but the current one,
\* unchanged and in order; and an admitted packet that is no duplicate is
\* always re-injected
C36_ReinjectedPacket ==
    /\ \A j \in 1..Len(ingress) : ingress[j].source.kind = "Internal"
    /\ \A i \in 1..Len(digiLog) :
          /\ digiLog[i].out.ok => ReinjectedAsClaimed(digiLog[i])
          /\ (digiLog[i].admitted /\ ~digiLog[i].seen) => digiLog[i].out.ok

(***************************************************************************)
(* The digipeater hearing the same packet again and again                  *)
(***************************************************************************)

\* the packets of a run: two stations, a path that asks for the alias
\* RELAY and a path that asks for another station
ViscousPackets ==
    {OfferedPacket("parse", src, <<tok>>) : src \in {"TEST", "W1AW"}, tok \in {"RELAY", "W1AW"}}

\* three packets in a row, heard at 0 s, 59 s and 60 s or in between
InitViscous ==
    /\ cfg = [CfgA EXCEPT !.digipeater.viscous_delay = 60]
    /\ \E p, q, r \in ViscousPackets :
          inputs = [serial |-> {}, is |-> {}, steps |-> <<59, 1>>, offers |-> <<p, q, r>>]
    /\ InitState
    /\ InitCodec

SpecViscous == InitViscous /\ [][NextDigi]_vars

\* the step takes a packet from the digipeater-feed
DigiTakes == Len(digiLog') = Len(digiLog) + 1

\* the entry j of the digipeater's log is the last copy of the key of
\* entry i that went through the viscous-delay check before entry i
LastAccepted(j, i) ==
    /\ j < i
    /\ DigiKey(digiLog[j].rp.packet) = DigiKey(digiLog[i].rp.packet)
    /\ digiLog[j].admitted /\ ~digiLog[j].seen
    /\ \A k \in (j + 1)..(i - 1) :
          DigiKey(digiLog[k].rp.packet) = DigiKey(digiLog[i].rp.packet)
              => ~(digiLog[k].admitted /\ ~digiLog[k].seen)

\* C37: a packet the viscous-delay check drops and a packet should_digipeat
\* rejects leave the digipeater's dedup table as it was; and an admitted
\* packet is digipeated when viscous_delay has passed since the last
\* accepted copy of its key, whatever copies were dropped in between
C37_MeasuredFromAccepted ==
    /\ [][DigiTakes =>
            LET e == digiLog'[Len(digiLog')]
            IN  (~e.admitted \/ e.seen) => digiRecent' = digiRecent]_vars
    /\ [](\A i \in 1..Len(digiLog), j \in 1..Len(digiLog) :
            ( /\ LastAccepted(j, i)
              /\ digiLog[i].admitted
              /\ digiLog[i].t - digiLog[j].t >= cfg.digipeater.viscous_delay )
            => (~digiLog[i].seen /\ digiLog[i].out.ok))

\* C37: a copy was digipeated at 0 s, the next one dropped at 59 s, and the
\* one after it, 1 s later, digipeated again
C37_Witness ==
    /\ Len(digiLog) = 3
    /\ LastAccepted(1, 3)
    /\ digiLog[1].out.ok
    /\ DigiKey(digiLog[2].rp.packet) = DigiKey(digiLog[1].rp.packet)
    /\ digiLog[2].admitted /\ digiLog[2].seen
    /\ digiLog[3].t - digiLog[2].t < cfg.digipeater.viscous_delay
    /\ digiLog[3].t - digiLog[1].t >= cfg.digipeater.viscous_delay
    /\ digiLog[3].out.ok
    /\ digiRecent[DigiKey(digiLog[3].rp.packet)] = digiLog[3].t

\* the step ends a call of route_packet: the last entry of the router's
\* log is new or has changed, and is done
CallEnds == routeLog' # routeLog /\ routeLog'[Len(routeLog')].done

\* what the call that ends with the step made of its packet
EndedAs(outcome) == CallEnds /\ routeLog'[Len(routeLog')].outcome = outcome

\* the step appends one entry to the dedup list, for the packet of the
\* call that ends with it
OneEntryAppended ==
    /\ Len(recent') = Len(recent) + 1
    /\ SubSeq(recent', 1, Len(recent)) = recent
    /\ recent'[Len(recent')]
          = [hash |-> CalculatePacketHash(
                          PacketToString(routeLog'[Len(routeLog')].rp.packet)),
             t |-> now]

\* C38: outside the housekeeping tick the dedup list changes exactly in
\* the step that ends a call of route_packet whose packet passed the
\* duplicate check and the filter, by one appended entry, whatever sinks
\* the packet went to; a call that drops its packet as a duplicate or by
\* the filter leaves the list, the counters and the four outbound channels
\* as they were
C38_StoredIffPassed ==
    /\ [][rtick' = rtick =>
            /\ recent' # recent <=> EndedAs("routed")
            /\ EndedAs("routed") => OneEntryAppended]_vars
    /\ [][(EndedAs("duplicate") \/ EndedAs("filtered"))
              => UNCHANGED <<recent, stats, digiFeed, msgFeed, rfOut, isOut>>]_vars

\* C38: a packet from APRS-IS that went to no sink was recorded all the
\* same, and an identical packet after it was dropped as a duplicate
C38_Witness ==
    \E i, j \in 1..Len(routeLog) :
        /\ i < j
        /\ routeLog[i].rp.source.kind = "AprsIs"
        /\ routeLog[i].outcome = "routed" /\ routeLog[i].sinks = {}
        /\ routeLog[j].outcome = "duplicate"
        /\ PacketToString(routeLog[j].rp.packet) = PacketToString(routeLog[i].rp.packet)
        /\ \E n \in 1..Len(recent) :
              recent[n].hash = CalculatePacketHash(PacketToString(routeLog[i].rp.packet))

\* C39: of a stream of two or more data frames of port 0 with a payload,
\* each separated from the next by one shared FEND, the decoder surfaces
\* every payload, in order
C39_SharedFend ==
    ( /\ StreamDecoded
      /\ subject.shared
      /\ Len(subject.bodies) >= 2
      /\ \A i \in 1..Len(subject.bodies) : WellFormed(subject.bodies[i]) )
    => frames = Payloads(subject.bodies)

(***************************************************************************)
(* A message heard twice over different paths                              *)
(***************************************************************************)

\* the station of CfgB hears message 1 of W1AW directly and by way of the
\* digipeater W2XYZ
ScenarioTwice ==
    Scenario(CfgB,
             {Str("W1AW>N0CALL::N0CALL   :hi{1"),
              Str("W1AW>N0CALL,W2XYZ*::N0CALL   :hi{1")},
             {},
             <<1>>)

InitTwice == InitOf({ScenarioTwice})

NextTwice ==
    \/ \E line \in inputs.serial : SerialRx(1, line)
    \/ RouterRecv
    \/ RouterDigiSend
    \/ RouterMsgSend
    \/ DigiRecv
    \/ MsgRecv
    \/ MsgAckSend
    \/ Advance

SpecTwice == InitTwice /\ [][NextTwice]_vars

\* the entry of the router's log is for an ack the message handler emitted
AckOfHandler(e) ==
    /\ e.rp.source.kind = "Internal"
    /\ e.rp.from # 0
    /\ e.rp.packet.data_type = "Message"
    /\ Contains(e.rp.packet.information, Str(":ack"))

\* C40: every ack of the message handler that the router has taken is
\* published to RF-egress and none is dropped as a duplicate, also the
\* second of two acks with the same text emitted within viscous_delay
C40_AckNeverSuppressed ==
    \A i \in 1..Len(routeLog) :
        AckOfHandler(routeLog[i])
            => /\ routeLog[i].outcome = "routed"
               /\ PublishedToRf(routeLog[i].rp.id)

====
